---- MODULE Spec2Model ----
(***************************************************************************)
(* Verification model of ai-baby-monitor: the Redis stream handler, the    *)
(* run_watcher loop and the in-process Watcher.watch loop.                 *)
(***************************************************************************)
EXTENDS Integers, Sequences, FiniteSets, TLC

VARIABLES
    stream,             \* the Redis stream: sequence of [id, fields], oldest first
    hist,               \* every entry ever appended to the stream, in append order
    maxlen,             \* maxlen argument the caller passes to add_frame
    approximate,        \* approximate argument the caller passes to add_frame
    frame_idx,          \* CameraStream.frame_idx: index of the next captured frame
    clock,              \* wall clock read by dt.datetime.now()
    lastRead            \* the last read call: its arguments and what it returned

VARIABLES
    pc,                 \* run_watcher: where the loop stands
    batch,              \* run_watcher: the frames handed to process_frames
    result,             \* run_watcher: what process_frames returned this round
    logs,               \* the {room}:logs stream
    round,              \* run_watcher: rounds that obtained a frame batch
    roundLogs,          \* log entries appended by the latest such round
    roundAlerts,        \* playsound calls made by the latest such round
    failedRounds,       \* rounds whose inference call failed
    cause               \* why the loop ended ("none" while it runs)

VARIABLES
    wpc,                \* Watcher.watch: where the loop stands
    current_awareness,  \* Watcher.current_awareness
    ninstr,             \* len(Watcher.instructions)
    instr,              \* Watcher.watch: the instruction being evaluated
    outcomes,           \* per instruction, the outcome of each attempt this round
    responses,          \* Watcher.watch: the parsed responses collected this round
    prev_awareness,     \* current_awareness when the round started
    wround,             \* rounds of Watcher.watch that obtained frames
    wlog,               \* what the round has written to the process log
    wcause              \* the exception that ended Watcher.watch ("none" while it runs)

VARIABLES
    call,               \* the last library call made directly: its arguments and outcome
    captured,           \* CameraStream: the frame_idx of every Frame capture_new_frame returned
    slept               \* the last time.sleep call a loop made

storeVars == <<stream, hist, maxlen, approximate, frame_idx, clock, lastRead>>

runVars == <<pc, batch, result, logs, round, roundLogs, roundAlerts,
             failedRounds, cause>>

watchVars == <<wpc, current_awareness, ninstr, instr, outcomes, responses,
               prev_awareness, wround, wlog, wcause>>

libVars == <<call, captured, slept>>

vars == <<storeVars, runVars, watchVars, libVars>>

-----------------------------------------------------------------------------
(* Bounds of the model *)

MaxFrames == 4          \* frames a producer captures in a run
MaxBound == 3           \* largest maxlen a caller passes
MaxCount == 3           \* largest count a reader asks for
TrimSlack == 1          \* entries an approximate trim may leave above maxlen
MaxRounds == 2          \* rounds of the watcher loop that obtain frames
MaxSubsampled == 3      \* frames the producer appends while the watcher runs
MaxInstructions == 2    \* instructions a Watcher is configured with
MaxWatchRounds == 2     \* rounds of Watcher.watch that obtain frames

Payloads == {<<255, 216>>, <<255, 216, 7>>}

\* Python's None
None == [none |-> TRUE]

-----------------------------------------------------------------------------
(* Python helpers *)

Digit(d) == CASE d = 0 -> "0" [] d = 1 -> "1" [] d = 2 -> "2" [] d = 3 -> "3"
              [] d = 4 -> "4" [] d = 5 -> "5" [] d = 6 -> "6" [] d = 7 -> "7"
              [] d = 8 -> "8" [] d = 9 -> "9"

DigitValue(c) == CASE c = "0" -> 0 [] c = "1" -> 1 [] c = "2" -> 2 [] c = "3" -> 3
                   [] c = "4" -> 4 [] c = "5" -> 5 [] c = "6" -> 6 [] c = "7" -> 7
                   [] c = "8" -> 8 [] c = "9" -> 9 [] OTHER -> -1

\* str(n) of a non-negative int: its decimal digits, most significant first
RECURSIVE Decimal(_)
Decimal(n) == IF n < 10 THEN <<Digit(n)>> ELSE Append(Decimal(n \div 10), Digit(n % 10))

\* int(text): the value of a decimal text, -1 standing for ValueError
RECURSIVE ParseDigits(_, _)
ParseDigits(s, acc) ==
    IF s = <<>> THEN acc
    ELSE IF DigitValue(Head(s)) < 0 THEN -1
    ELSE ParseDigits(Tail(s), 10 * acc + DigitValue(Head(s)))

ParseInt(s) == IF s = <<>> THEN -1 ELSE ParseDigits(s, 0)

\* list[::-1]
Reverse(s) == [i \in 1..Len(s) |-> s[Len(s) + 1 - i]]

Min(a, b) == IF a < b THEN a ELSE b
Max(a, b) == IF a > b THEN a ELSE b

-----------------------------------------------------------------------------
(* Frames and their serialized form (redis_stream.py, camera_stream.py) *)

Frame(data, ts, idx) == [frame_data |-> data, timestamp |-> ts, frame_idx |-> idx]

\* A timestamp is a count of microseconds. datetime.isoformat() writes the
\* whole seconds and, only when they are not zero, the microseconds as six
\* digits after a point.
ZeroPad(digits, width) == [i \in 1..(width - Len(digits)) |-> "0"] \o digits

\* isoformat(timespec="seconds"): the microseconds are never written
isoformat_seconds(ts) == <<"T">> \o Decimal(ts \div 1000000)

isoformat(ts) ==
    LET seconds == ts \div 1000000
        microsecond == ts % 1000000
    IN  <<"T">> \o Decimal(seconds)
          \o (IF microsecond = 0 THEN <<>>
              ELSE <<".">> \o ZeroPad(Decimal(microsecond), 6))

\* position of the first c in s, 0 when there is none
Find(s, c) ==
    IF \E i \in 1..Len(s) : s[i] = c
    THEN CHOOSE i \in 1..Len(s) : s[i] = c /\ \A j \in 1..(i - 1) : s[j] # c
    ELSE 0

RECURSIVE Pow10(_)
Pow10(k) == IF k = 0 THEN 1 ELSE 10 * Pow10(k - 1)

\* datetime.fromisoformat(text): -1 stands for ValueError. The fraction, when
\* there is one, has one to six digits.
fromisoformat(text) ==
    IF text = <<>> \/ Head(text) # "T" THEN -1
    ELSE LET body == Tail(text)
             point == Find(body, ".")
             whole == IF point = 0 THEN body ELSE SubSeq(body, 1, point - 1)
             fraction == IF point = 0 THEN <<>> ELSE SubSeq(body, point + 1, Len(body))
             seconds == ParseInt(whole)
             microsecond == IF point = 0 THEN 0
                            ELSE IF Len(fraction) > 6 THEN -1
                            ELSE ParseInt(fraction) * Pow10(6 - Len(fraction))
         IN  IF seconds < 0 \/ microsecond < 0 THEN -1
             ELSE seconds * 1000000 + microsecond

PyBytes(v) == [ty |-> "bytes", v |-> v]
PyStr(v) == [ty |-> "str", v |-> v]
PyInt(v) == [ty |-> "int", v |-> v]

serialize_frame(frame) ==
    [frame_bytes |-> PyBytes(frame.frame_data),
     timestamp |-> PyStr(isoformat(frame.timestamp)),
     frame_idx |-> PyInt(frame.frame_idx)]

\* redis-py puts every key and value on the wire as bytes: bytes as they are,
\* text as its UTF-8 bytes, an int as the bytes of its decimal text
WireKey(k) == <<"b", k>>

WireValue(x) == IF x.ty = "int" THEN Decimal(x.v) ELSE x.v

WireEncode(fields) ==
    [bk \in {WireKey(k) : k \in DOMAIN fields} |-> WireValue(fields[bk[2]])]

\* deserialize_frame without the try/except: the exception leaves the method
deserialize_frame_unguarded(frame_data) ==
    IF ~({WireKey("frame_bytes"), WireKey("timestamp"), WireKey("frame_idx")}
            \subseteq DOMAIN frame_data)
    THEN [raised |-> "KeyError"]
    ELSE LET frame_array == frame_data[WireKey("frame_bytes")]
             timestamp == fromisoformat(frame_data[WireKey("timestamp")])
             idx == ParseInt(frame_data[WireKey("frame_idx")])
         IN  IF timestamp < 0 \/ idx < 0 THEN [raised |-> "ValueError"]
             ELSE Frame(frame_array, timestamp, idx)

deserialize_frame(frame_data) ==
    IF ~({WireKey("frame_bytes"), WireKey("timestamp"), WireKey("frame_idx")}
            \subseteq DOMAIN frame_data)
    THEN None
    ELSE LET frame_array == frame_data[WireKey("frame_bytes")]
             timestamp == fromisoformat(frame_data[WireKey("timestamp")])
             idx == ParseInt(frame_data[WireKey("frame_idx")])
         IN  IF timestamp < 0 \/ idx < 0 THEN None
             ELSE Frame(frame_array, timestamp, idx)

-----------------------------------------------------------------------------
(* The store operations the handler consumes (redis_client.xadd / xrevrange) *)

LastN(s, n) == SubSeq(s, Len(s) - Min(n, Len(s)) + 1, Len(s))

\* xadd that trims the stream before it appends the new entry
xadd_trim_first(s, id, fields, mlen, approx) ==
    {Append(LastN(s, mlen), [id |-> id, fields |-> fields])}

\* XADD name MAXLEN [=|~] maxlen: the stream contents the store may hold after
\* the append. "=" trims to exactly maxlen; "~" trims whole nodes only, so it
\* may leave up to TrimSlack entries above maxlen.
xadd(s, id, fields, mlen, approx) ==
    LET added == Append(s, [id |-> id, fields |-> fields])
    IN  IF ~approx THEN {LastN(added, mlen)}
        ELSE {LastN(added, n) : n \in mlen..(mlen + TrimSlack)}

\* XREVRANGE name + min COUNT count: entries with id >= min, newest first
\* (entry ids start at 1; the special id "-" is the smallest id, 0)
xrevrange(s, min, count) ==
    LET inRange == SelectSeq(s, LAMBDA e : e.id >= min)
    IN  Reverse(LastN(inRange, count))

-----------------------------------------------------------------------------
(* RedisStreamHandler *)

\* get_latest_entries without the [::-1]
get_latest_entries_native(s, count, last_id) ==
    xrevrange(s, IF last_id # <<>> THEN last_id[1] ELSE 0, count)

\* get_latest_entries with an exclusive lower bound: min = "(" + last_id
get_latest_entries_exclusive(s, count, last_id) ==
    IF last_id # <<>> THEN Reverse(xrevrange(s, last_id[1] + 1, count))
    ELSE Reverse(xrevrange(s, 0, count))

\* get_latest_entries over XRANGE: the oldest count entries in range
get_latest_entries_oldest(s, count, last_id) ==
    LET min_id == IF last_id # <<>> THEN last_id[1] ELSE 0
        inRange == SelectSeq(s, LAMBDA e : e.id >= min_id)
    IN  SubSeq(inRange, 1, Min(count, Len(inRange)))

\* last_id is <<>> for None and <<id>> for an entry id
get_latest_entries(s, count, last_id) ==
    LET min_id == IF last_id # <<>> THEN last_id[1] ELSE 0
    IN  Reverse(xrevrange(s, min_id, count))

\* get_latest_frames that deserializes the store's reply in the order it came
get_latest_frames_native(s, count) ==
    LET entries == xrevrange(s, 0, count)
        frames == [i \in 1..Len(entries) |-> deserialize_frame(entries[i].fields)]
    IN  SelectSeq(frames, LAMBDA f : f # None)

get_latest_frames(s, count) ==
    LET entries == get_latest_entries(s, count, <<>>)
        frames == [i \in 1..Len(entries) |-> deserialize_frame(entries[i].fields)]
    IN  SelectSeq(frames, LAMBDA f : f # None)

get_latest_logs(s, count, last_log_id) == get_latest_entries(s, count, last_log_id)

\* add_frame that keeps only the entry it appends
add_frame_latest_only(s, id, frame, mlen, approx) ==
    xadd(s, id, WireEncode(serialize_frame(frame)), 1, FALSE)

\* add_frame: the stream contents the store may hold once the call returns
add_frame(s, id, frame, mlen, approx) ==
    xadd(s, id, WireEncode(serialize_frame(frame)), mlen, approx)

-----------------------------------------------------------------------------
(* One stream driven by a producer and read by the handler's read methods *)

NoRead == [op |-> "none", count |-> 0, appended |-> 0,
           native |-> <<>>, entries |-> <<>>, frames |-> <<>>]

InitStore ==
    /\ stream = <<>>
    /\ hist = <<>>
    /\ maxlen \in 1..MaxBound
    /\ approximate \in BOOLEAN
    /\ frame_idx = 0
    /\ clock = 0
    /\ lastRead = NoRead

\* the producer captures the next frame and appends it (stream_to_redis.py)
AddFrameOf(payloads, limit) ==
    /\ frame_idx < limit
    /\ \E data \in payloads :
         LET frame == Frame(data, clock, frame_idx)
             id == Len(hist) + 1
         IN  /\ \E s2 \in add_frame(stream, id, frame, maxlen, approximate) :
                    stream' = s2
             /\ hist' = Append(hist, [id |-> id,
                                       fields |-> WireEncode(serialize_frame(frame))])
    /\ frame_idx' = frame_idx + 1
    /\ clock' = clock + 1
    /\ UNCHANGED <<maxlen, approximate, lastRead, runVars, watchVars, libVars>>

AddFrame == AddFrameOf(Payloads, MaxFrames)

GetLatestEntries ==
    /\ \E count \in 1..MaxCount :
         lastRead' = [op |-> "get_latest_entries", count |-> count,
                      appended |-> Len(hist),
                      native |-> xrevrange(stream, 0, count),
                      entries |-> get_latest_entries(stream, count, <<>>),
                      frames |-> <<>>]
    /\ UNCHANGED <<stream, hist, maxlen, approximate, frame_idx, clock, runVars, watchVars, libVars>>

GetLatestFrames ==
    /\ \E count \in 1..MaxCount :
         lastRead' = [op |-> "get_latest_frames", count |-> count,
                      appended |-> Len(hist),
                      native |-> xrevrange(stream, 0, count),
                      entries |-> get_latest_entries(stream, count, <<>>),
                      frames |-> get_latest_frames(stream, count)]
    /\ UNCHANGED <<stream, hist, maxlen, approximate, frame_idx, clock, runVars, watchVars, libVars>>

GetLatestLogs ==
    /\ \E count \in 1..MaxCount, last_log_id \in {<<>>} \cup {<<i>> : i \in 1..Len(hist)} :
         lastRead' = [op |-> "get_latest_logs", count |-> count,
                      appended |-> Len(hist),
                      native |-> xrevrange(stream,
                                   IF last_log_id # <<>> THEN last_log_id[1] ELSE 0,
                                   count),
                      entries |-> get_latest_logs(stream, count, last_log_id),
                      frames |-> <<>>]
    /\ UNCHANGED <<stream, hist, maxlen, approximate, frame_idx, clock, runVars, watchVars, libVars>>

InitRunIdle ==
    /\ pc = "idle"
    /\ batch = <<>>
    /\ result = [success |-> FALSE, error |-> <<"no call yet">>, raised |-> FALSE]
    /\ logs = <<>>
    /\ round = 0
    /\ roundLogs = 0
    /\ roundAlerts = 0
    /\ failedRounds = 0
    /\ cause = "none"

InitWatchIdle ==
    /\ wpc = "idle"
    /\ current_awareness = [ty |-> "AwarenessLevel", v |-> "MEDIUM"]
    /\ ninstr = 1
    /\ instr = 1
    /\ outcomes = <<>>
    /\ responses = <<>>
    /\ prev_awareness = current_awareness
    /\ wround = 0
    /\ wlog = {}
    /\ wcause = "none"

NoCall == [fn |-> "none"]

NoSleep == [by |-> "none"]

InitLibIdle ==
    /\ call = NoCall
    /\ captured = <<>>
    /\ slept = NoSleep

Init == InitStore /\ InitRunIdle /\ InitWatchIdle /\ InitLibIdle

Next == AddFrame \/ GetLatestEntries \/ GetLatestFrames \/ GetLatestLogs

Spec == Init /\ [][Next]_vars

-----------------------------------------------------------------------------
(* Watcher.process_frames (src/ai_baby_monitor/watcher/watcher.py) *)

AwarenessLevels == {"LOW", "MEDIUM", "HIGH"}

\* What the endpoint call of one process_frames call does: it raises (endpoint
\* rejection, connection error, timeout), or it returns a completion whose
\* content is a verdict matching WatcherResponse, or content that is not
Replies ==
    {[kind |-> "raise"], [kind |-> "invalid"]}
    \cup {[kind |-> "verdict", should_alert |-> a, level |-> l] :
            a \in BOOLEAN, l \in AwarenessLevels}

\* The same, with the further outcomes a direct call may meet: encoding a
\* frame to base64 raises; the completion's content is None; the content is a
\* JSON object holding some of the three fields, its level possibly not a
\* member of AwarenessLevel
ResponseFields == {"should_alert", "reasoning", "recommended_awareness_level"}

InferReplies ==
    Replies
    \cup {[kind |-> "base64_raises"], [kind |-> "none"]}
    \cup {[kind |-> "object", fields |-> F, should_alert |-> a, level |-> l] :
            F \in SUBSET ResponseFields, a \in BOOLEAN,
            l \in AwarenessLevels \cup {"VERY_LOW"}}

\* WatcherResponse.model_validate_json accepts the content
Validates(reply) ==
    \/ reply.kind = "verdict"
    \/ /\ reply.kind = "object"
       /\ reply.fields = ResponseFields
       /\ reply.level \in AwarenessLevels

Success(reply) ==
    [success |-> TRUE, should_alert |-> reply.should_alert,
     reasoning |-> "reasoning", recommended_awareness_level |-> reply.level,
     raw_response |-> reply, raised |-> FALSE]

Failure(error) == [success |-> FALSE, error |-> error, raised |-> FALSE]

\* an exception leaving process_frames
Raised(error) == [success |-> FALSE, error |-> error, raised |-> TRUE]

ParseFailure(reply) == Failure(<<"ValidationError", "Raw response: ", reply>>)

\* process_frames without the outer try/except
process_frames_unguarded(frames, reply) ==
    IF frames = <<>> THEN Failure(<<"No frames provided">>)
    ELSE IF reply.kind = "base64_raises" THEN Raised(<<"TypeError">>)
    ELSE IF reply.kind = "raise" THEN Raised(<<"APIConnectionError">>)
    ELSE IF reply.kind = "none" THEN Raised(<<"TypeError">>)
    ELSE IF ~Validates(reply) THEN ParseFailure(reply)
    ELSE Success(reply)

\* process_frames that raises on an empty batch
process_frames_rejecting(frames, reply) ==
    IF frames = <<>> THEN Raised(<<"ValueError">>)
    ELSE IF reply.kind = "base64_raises" THEN Failure(<<"TypeError">>)
    ELSE IF reply.kind = "raise" THEN Failure(<<"APIConnectionError">>)
    ELSE IF reply.kind = "none" THEN Failure(<<"TypeError">>)
    ELSE IF ~Validates(reply) THEN ParseFailure(reply)
    ELSE Success(reply)

\* process_frames that fills in what the response lacks
process_frames_defaulting(frames, reply) ==
    IF frames = <<>> THEN Failure(<<"No frames provided">>)
    ELSE IF reply.kind = "base64_raises" THEN Failure(<<"TypeError">>)
    ELSE IF reply.kind = "raise" THEN Failure(<<"APIConnectionError">>)
    ELSE IF reply.kind = "none" THEN Failure(<<"TypeError">>)
    ELSE IF reply.kind = "invalid" THEN ParseFailure(reply)
    ELSE Success([reply EXCEPT !.level = IF reply.kind = "object"
                                            /\ (@ \notin AwarenessLevels
                                                \/ "recommended_awareness_level"
                                                      \notin reply.fields)
                                         THEN "MEDIUM" ELSE @])

\* lines 104-166. A content of None fails validation, and building the
\* failure message (str + None) raises TypeError inside the handler, which
\* the outer handler turns into a failure.
process_frames(frames, reply) ==
    IF frames = <<>> THEN Failure(<<"No frames provided">>)
    ELSE IF reply.kind = "base64_raises" THEN Failure(<<"TypeError">>)
    ELSE IF reply.kind = "raise" THEN Failure(<<"APIConnectionError">>)
    ELSE IF reply.kind = "none" THEN Failure(<<"TypeError">>)
    ELSE IF ~Validates(reply) THEN ParseFailure(reply)
    ELSE Success(reply)

\* the number of chat.completions.create calls one process_frames call makes
endpoint_calls(frames, reply) ==
    IF frames = <<>> \/ reply.kind = "base64_raises" THEN 0 ELSE 1

-----------------------------------------------------------------------------
(* run_watcher (src/scripts/run_watcher.py) *)

num_frames_to_process == MaxCount

\* time.sleep(0.3), in milliseconds
RetrySleep == 300

LogsMaxlen == 21600

add_logs(s, id, log_data, mlen, approx) == xadd(s, id, log_data, mlen, approx)

LevelNum(name) == CASE name = "LOW" -> 1 [] name = "MEDIUM" -> 2 [] name = "HIGH" -> 3

\* log_data that writes the higher of MEDIUM and the recommended level
log_data_floor(res, now) ==
    [timestamp |-> now,
     should_alert |-> IF res.should_alert THEN 1 ELSE 0,
     awareness_level |-> IF LevelNum(res.recommended_awareness_level) < 2
                         THEN "MEDIUM" ELSE res.recommended_awareness_level,
     reasoning |-> res.reasoning]

\* error_data that also carries an alert flag
error_data_flagged(res, now) == [timestamp |-> now, error |-> res.error, should_alert |-> 0]

log_data(res, now) ==
    [timestamp |-> now,
     should_alert |-> IF res.should_alert THEN 1 ELSE 0,
     awareness_level |-> res.recommended_awareness_level,
     reasoning |-> res.reasoning]

error_data(res, now) == [timestamp |-> now, error |-> res.error]

InitRun ==
    /\ stream = <<>>
    /\ hist = <<>>
    /\ maxlen = MaxBound
    /\ approximate = TRUE
    /\ frame_idx = 0
    /\ clock = 0
    /\ lastRead = NoRead
    /\ pc = "read"
    /\ batch = <<>>
    /\ result = Failure(<<"no call yet">>)
    /\ logs = <<>>
    /\ round = 0
    /\ roundLogs = 0
    /\ roundAlerts = 0
    /\ failedRounds = 0
    /\ cause = "none"
    /\ InitWatchIdle
    /\ InitLibIdle

\* the producer process appends a frame to {room}:subsampled
ProducerAppend == AddFrameOf({<<255, 216>>}, MaxSubsampled)

\* the record of one get_latest_frames(key, count) call on the stream
FramesRead(count) ==
    [op |-> "get_latest_frames", count |-> count, appended |-> Len(hist),
     native |-> xrevrange(stream, 0, count),
     entries |-> get_latest_entries(stream, count, <<>>),
     frames |-> get_latest_frames(stream, count)]

\* a read that removes from the stream the entries it returns
ReadFrames_consuming ==
    /\ pc = "read"
    /\ round < MaxRounds
    /\ LET frames == get_latest_frames(stream, num_frames_to_process)
       IN  /\ frames # <<>>
           /\ batch' = Reverse(frames)
           /\ stream' = SubSeq(stream, 1, Len(stream) - Len(frames))
    /\ lastRead' = FramesRead(num_frames_to_process)
    /\ pc' = "infer"
    /\ round' = round + 1
    /\ roundLogs' = 0
    /\ roundAlerts' = 0
    /\ UNCHANGED <<hist, maxlen, approximate, frame_idx, clock,
                   watchVars, libVars, result, logs, failedRounds, cause>>

\* lines 67-84: the read returned frames; they are reversed and the round starts
ReadFrames ==
    /\ pc = "read"
    /\ round < MaxRounds
    /\ LET frames == get_latest_frames(stream, num_frames_to_process)
       IN  /\ frames # <<>>
           /\ batch' = Reverse(frames)
    /\ lastRead' = FramesRead(num_frames_to_process)
    /\ pc' = "infer"
    /\ round' = round + 1
    /\ roundLogs' = 0
    /\ roundAlerts' = 0
    /\ UNCHANGED <<stream, hist, maxlen, approximate, frame_idx, clock,
                   watchVars, libVars, result, logs, failedRounds, cause>>

\* an empty read reported to the logs stream as a failed round
ReadNoFrames_escalates ==
    /\ pc = "read"
    /\ get_latest_frames(stream, num_frames_to_process) = <<>>
    /\ \E l2 \in add_logs(logs, Len(logs) + 1,
                           [timestamp |-> clock, error |-> <<"No frames available">>],
                           LogsMaxlen, TRUE) :
         logs' = l2
    /\ lastRead' = FramesRead(num_frames_to_process)
    /\ slept' = [by |-> "empty_read", ms |-> RetrySleep]
    /\ pc' = "read"
    /\ UNCHANGED <<stream, hist, maxlen, approximate, frame_idx, clock,
                   watchVars, call, captured, batch, result, round, roundLogs,
                   roundAlerts, failedRounds, cause>>

\* lines 71-76: no frames; warn, sleep 0.3 s, continue
ReadNoFrames ==
    /\ pc = "read"
    /\ get_latest_frames(stream, num_frames_to_process) = <<>>
    /\ lastRead' = FramesRead(num_frames_to_process)
    /\ slept' = [by |-> "empty_read", ms |-> RetrySleep]
    /\ pc' = "read"
    /\ UNCHANGED <<stream, hist, maxlen, approximate, frame_idx, clock,
                   watchVars, call, captured, batch, result, logs, round, roundLogs, roundAlerts,
                   failedRounds, cause>>

\* line 84: the inference call
Infer ==
    /\ pc = "infer"
    /\ \E reply \in Replies :
         LET res == process_frames(batch, reply)
         IN  /\ result' = res
             /\ pc' = IF res.raised THEN "stopped" ELSE "log"
             /\ cause' = IF res.raised THEN "process_frames" ELSE cause
             /\ failedRounds' = IF res.success THEN failedRounds ELSE failedRounds + 1
    /\ UNCHANGED <<storeVars, watchVars, libVars, batch, logs, round, roundLogs, roundAlerts>>

\* lines 86-109: a successful round appends its log entry
LogVerdict ==
    /\ pc = "log"
    /\ result.success
    /\ \E l2 \in add_logs(logs, Len(logs) + 1, log_data(result, clock), LogsMaxlen, TRUE) :
         logs' = l2
    /\ roundLogs' = roundLogs + 1
    /\ pc' = IF result.should_alert THEN "alert" ELSE "read"
    /\ UNCHANGED <<storeVars, watchVars, libVars, batch, result, round, roundAlerts, failedRounds, cause>>

\* the failure branch reporting through the process logger only
LogError_no_entry ==
    /\ pc = "log"
    /\ ~result.success
    /\ pc' = "read"
    /\ UNCHANGED <<storeVars, watchVars, libVars, batch, result, logs, round, roundLogs, roundAlerts,
                   failedRounds, cause>>

\* lines 113-124: a failed round appends an error entry and sleeps 0.3 s
LogError ==
    /\ pc = "log"
    /\ ~result.success
    /\ \E l2 \in add_logs(logs, Len(logs) + 1, error_data(result, clock), LogsMaxlen, TRUE) :
         logs' = l2
    /\ roundLogs' = roundLogs + 1
    /\ slept' = [by |-> "failed_round", ms |-> RetrySleep]
    /\ pc' = "read"
    /\ UNCHANGED <<storeVars, watchVars, call, captured, batch, result, round, roundAlerts,
                   failedRounds, cause>>

\* lines 111-112: playsound
Alert ==
    /\ pc = "alert"
    /\ roundAlerts' = roundAlerts + 1
    /\ pc' = "read"
    /\ UNCHANGED <<storeVars, watchVars, libVars, batch, result, logs, round, roundLogs, failedRounds, cause>>

\* lines 111-112, 128-129: playsound raises
AlertFails ==
    /\ pc = "alert"
    /\ roundAlerts' = roundAlerts + 1
    /\ pc' = "stopped"
    /\ cause' = "playsound"
    /\ UNCHANGED <<storeVars, watchVars, libVars, batch, result, logs, round, roundLogs, failedRounds>>

\* a store error that is logged inside the loop, which then starts over
StoreFails_retries ==
    /\ pc \in {"read", "log"}
    /\ pc' = "read"
    /\ cause' = "store"
    /\ UNCHANGED <<storeVars, watchVars, libVars, batch, result, logs, round, roundLogs, roundAlerts,
                   failedRounds>>

\* lines 67, 109, 122, 128-129: a store call raises; the handler logs and the
\* function returns
StoreFails ==
    /\ pc \in {"read", "log"}
    /\ pc' = "stopped"
    /\ cause' = "store"
    /\ UNCHANGED <<storeVars, watchVars, libVars, batch, result, logs, round, roundLogs, roundAlerts,
                   failedRounds>>

\* an interrupt handler that appends a closing entry to the logs stream
Interrupt_final_entry ==
    /\ pc \in {"read", "infer", "log", "alert"}
    /\ \E l2 \in add_logs(logs, Len(logs) + 1,
                           [timestamp |-> clock, error |-> <<"Watcher stopped by user">>],
                           LogsMaxlen, TRUE) :
         logs' = l2
    /\ pc' = "stopped"
    /\ cause' = "interrupt"
    /\ UNCHANGED <<storeVars, watchVars, libVars, batch, result, round, roundLogs, roundAlerts,
                   failedRounds>>

\* an interrupt that is noticed only once the call in flight has returned
Interrupt_cooperative ==
    /\ pc \in {"read", "infer", "log", "alert"}
    /\ IF pc = "log"
       THEN /\ \E l2 \in add_logs(logs, Len(logs) + 1,
                                  IF result.success THEN log_data(result, clock)
                                  ELSE error_data(result, clock),
                                  LogsMaxlen, TRUE) :
                 logs' = l2
            /\ roundLogs' = roundLogs + 1
            /\ UNCHANGED roundAlerts
       ELSE IF pc = "alert"
       THEN roundAlerts' = roundAlerts + 1 /\ UNCHANGED <<logs, roundLogs>>
       ELSE UNCHANGED <<logs, roundLogs, roundAlerts>>
    /\ pc' = "stopped"
    /\ cause' = "interrupt"
    /\ UNCHANGED <<storeVars, watchVars, libVars, batch, result, round, failedRounds>>

\* lines 126-127: KeyboardInterrupt, wherever the loop stands
Interrupt ==
    /\ pc \in {"read", "infer", "log", "alert"}
    /\ pc' = "stopped"
    /\ cause' = "interrupt"
    /\ UNCHANGED <<storeVars, watchVars, libVars, batch, result, logs, round, roundLogs, roundAlerts,
                   failedRounds>>

NextRun ==
    \/ ProducerAppend
    \/ ReadFrames
    \/ ReadNoFrames
    \/ Infer
    \/ LogVerdict
    \/ LogError
    \/ Alert
    \/ AlertFails
    \/ StoreFails
    \/ Interrupt

SpecRun == InitRun /\ [][NextRun]_vars

-----------------------------------------------------------------------------
(* Watcher.watch (src/ai_baby_monitor/watcher.py) *)

\* a member of the Enum AwarenessLevel (LOW = 1, MEDIUM = 2, HIGH = 3)
Enum(name) == [ty |-> "AwarenessLevel", v |-> name]

\* for _ in range(2)
Attempts_three == 2 + 1
Attempts == 2

\* The text one llm.generate call produces: a JSON object, with or without
\* the recommended_awareness_level key; text that is not JSON; JSON that is
\* not an object. The call may also raise.
LlmOutputs ==
    {[kind |-> "raise"], [kind |-> "garbage"], [kind |-> "nonobject"]}
    \cup {[kind |-> "object", should_alert |-> a, level |-> l] :
            a \in BOOLEAN, l \in AwarenessLevels \cup {"missing"}}

try_parse_response(response) ==
    IF response.kind = "garbage" THEN [kind |-> "empty"]
    ELSE IF response.kind = "nonobject" THEN [kind |-> "AttributeError"]
    ELSE [kind |-> "dict",
          should_alert |-> response.should_alert,
          reasoning |-> "",
          recommended_awareness_level |->
              IF response.level = "missing" THEN Enum("MEDIUM")
              ELSE PyStr(response.level)]

\* Python's ordering of two values: str orders by code point, a plain Enum
\* member supports no ordering with anything (TypeError)
Comparable(a, b) == a.ty = "str" /\ b.ty = "str"

StrRank(x) == CASE x = "HIGH" -> 1 [] x = "LOW" -> 2 [] x = "MEDIUM" -> 3

PyGt(a, b) == StrRank(a.v) > StrRank(b.v)

\* max(list): [ok |-> FALSE] stands for TypeError
RECURSIVE PyMaxFrom(_, _)
PyMaxFrom(rest, best) ==
    IF rest = <<>> THEN [ok |-> TRUE, v |-> best]
    ELSE IF ~Comparable(Head(rest), best) THEN [ok |-> FALSE]
    ELSE PyMaxFrom(Tail(rest), IF PyGt(Head(rest), best) THEN Head(rest) ELSE best)

PyMax(list) == PyMaxFrom(Tail(list), Head(list))

Recommended(resps) ==
    [i \in 1..Len(resps) |-> resps[i].recommended_awareness_level]

\* the level computed as the smallest of the recommendations and the current one
NextAwareness_min(resps, current) ==
    LET all == Recommended(resps) \o <<current>>
        low == CHOOSE i \in 1..Len(all) :
                 \A j \in 1..Len(all) : LevelNum(all[i].v) <= LevelNum(all[j].v)
    IN  [ok |-> TRUE, v |-> Enum(all[low].v)]

\* the level computed from the recommendations alone: max([]) raises ValueError
NextAwareness_responses_only(resps, current) ==
    IF resps = <<>> THEN [ok |-> FALSE] ELSE PyMax(Recommended(resps))

\* lines 114-117
NextAwareness(resps, current) == PyMax(Recommended(resps) \o <<current>>)

set_awareness_level(current, level) == IF level # current THEN level ELSE current

InitWatch ==
    /\ stream = <<>>
    /\ hist = <<>>
    /\ maxlen = MaxBound
    /\ approximate = TRUE
    /\ frame_idx = 0
    /\ clock = 0
    /\ lastRead = NoRead
    /\ InitRunIdle
    /\ wpc = "frames"
    /\ current_awareness = Enum("MEDIUM")
    /\ ninstr \in 1..MaxInstructions
    /\ instr = 1
    /\ outcomes = [i \in 1..ninstr |-> <<>>]
    /\ responses = <<>>
    /\ prev_awareness = current_awareness
    /\ wround = 0
    /\ wlog = {}
    /\ wcause = "none"
    /\ InitLibIdle

\* lines 85-92: frames are available; the round starts
GetFrames ==
    /\ wpc = "frames"
    /\ wround < MaxWatchRounds
    /\ wpc' = "generate"
    /\ instr' = 1
    /\ outcomes' = [i \in 1..ninstr |-> <<>>]
    /\ responses' = <<>>
    /\ prev_awareness' = current_awareness
    /\ wround' = wround + 1
    /\ wlog' = {}
    /\ UNCHANGED <<storeVars, runVars, libVars, current_awareness, ninstr, wcause>>

\* lines 87-89: no frames; warn and continue
GetNoFrames ==
    /\ wpc = "frames"
    /\ wlog' = wlog \cup {"No frame available"}
    /\ UNCHANGED <<storeVars, runVars, libVars, wpc, current_awareness, ninstr, instr,
                   outcomes, responses, prev_awareness, wround, wcause>>

\* what follows the last attempt made for an instruction
AfterInstruction ==
    IF instr = ninstr
    THEN wpc' = "adjust" /\ instr' = instr
    ELSE wpc' = "generate" /\ instr' = instr + 1

\* lines 101-108: one attempt for the current instruction
Generate ==
    /\ wpc = "generate"
    /\ \E out \in LlmOutputs :
         LET parsed == try_parse_response(out)
         IN  IF out.kind = "raise" \/ parsed.kind = "AttributeError"
             THEN /\ wpc' = "crashed"
                  /\ wcause' = IF out.kind = "raise" THEN "generate" ELSE "AttributeError"
                  /\ outcomes' = [outcomes EXCEPT ![instr] = Append(@, "raised")]
                  /\ UNCHANGED <<instr, responses>>
             ELSE IF parsed.kind = "dict"
             THEN /\ responses' = Append(responses, parsed)
                  /\ outcomes' = [outcomes EXCEPT ![instr] = Append(@, "parsed")]
                  /\ AfterInstruction
                  /\ UNCHANGED wcause
             ELSE /\ outcomes' = [outcomes EXCEPT ![instr] = Append(@, "unparsable")]
                  /\ IF Len(outcomes[instr]) + 1 >= Attempts
                     THEN AfterInstruction
                     ELSE UNCHANGED <<wpc, instr>>
                  /\ UNCHANGED <<responses, wcause>>
    /\ UNCHANGED <<storeVars, runVars, libVars, current_awareness, ninstr, prev_awareness,
                   wround, wlog>>

\* FPS_CONFIG, in thousandths of a frame per second
FPS_CONFIG == [LOW |-> 500, MEDIUM |-> 1000, HIGH |-> 2000]

\* 1.0 / current_fps, in milliseconds
Period(fps) == 1000000 \div fps

\* time.time() - start_time at the end of a round, in milliseconds
ElapsedTimes == {0, 400, 1000, 2500}

\* lines 109-122: alerts are logged, the awareness level is adjusted, the loop sleeps
Adjust ==
    /\ wpc = "adjust"
    /\ LET alerts == SelectSeq(responses, LAMBDA r : r.should_alert)
           level == NextAwareness(responses, current_awareness)
       IN  IF ~level.ok
           THEN /\ wpc' = "crashed"
                /\ wcause' = "TypeError"
                /\ wlog' = wlog \cup (IF alerts # <<>> THEN {"Alerts"} ELSE {})
                /\ UNCHANGED <<current_awareness, slept>>
           ELSE /\ current_awareness' = set_awareness_level(current_awareness, level.v)
                /\ wlog' = wlog \cup (IF alerts # <<>> THEN {"Alerts"} ELSE {})
                               \cup (IF level.v # current_awareness
                                     THEN {"Changing awareness level"} ELSE {})
                /\ \E elapsed_time \in ElapsedTimes :
                     LET current_fps == FPS_CONFIG[prev_awareness.v]
                     IN  slept' = [by |-> "watch", round |-> wround,
                                   elapsed |-> elapsed_time,
                                   ms |-> Max(0, Period(current_fps) - elapsed_time)]
                /\ wpc' = "frames"
                /\ UNCHANGED wcause
    /\ UNCHANGED <<storeVars, runVars, call, captured, ninstr, instr, outcomes, responses,
                   prev_awareness, wround>>

NextWatch == GetFrames \/ GetNoFrames \/ Generate \/ Adjust

SpecWatch == InitWatch /\ [][NextWatch]_vars

-----------------------------------------------------------------------------
(* Properties of the stream handler, checked under Spec *)

\* C1: with exact trim (approximate=False) the stream length seen after every
\* append is min(number of appends so far, maxlen); it never exceeds maxlen.
C1_ExactTrimLength ==
    ~approximate => Len(stream) = Min(Len(hist), maxlen)

C1_Witness ==
    ~approximate /\ Len(hist) > maxlen /\ Len(stream) = maxlen

\* C2: get_latest_entries and get_latest_logs return their entries oldest
\* first, in strictly increasing entry-id order, and the reverse of the result
\* is the store's newest-first reply.
C2_OldestFirst ==
    lastRead.op \in {"get_latest_entries", "get_latest_logs"} =>
        /\ \A i, j \in 1..Len(lastRead.entries) :
              i < j => lastRead.entries[i].id < lastRead.entries[j].id
        /\ Reverse(lastRead.entries) = lastRead.native

C2_Witness ==
    /\ lastRead.op = "get_latest_logs"
    /\ Len(lastRead.entries) >= 2
    /\ lastRead.entries[1].id > 1

\* C3: after frames 0..N-1 were appended to a stream bounded at B with exact
\* trim, get_latest_frames(key, B) returns the frames max(0, N-B)..N-1 in
\* increasing index order.
C3_LatestWindow ==
    (lastRead.op = "get_latest_frames" /\ ~approximate /\ lastRead.count = maxlen) =>
        LET N == lastRead.appended
            lo == Max(0, N - maxlen)
        IN  [i \in 1..Len(lastRead.frames) |-> lastRead.frames[i].frame_idx]
              = [i \in 1..(N - lo) |-> lo + i - 1]

C3_Witness ==
    /\ lastRead.op = "get_latest_frames" /\ ~approximate
    /\ lastRead.count = maxlen /\ maxlen >= 2
    /\ lastRead.appended > maxlen
    /\ Len(lastRead.frames) = maxlen

-----------------------------------------------------------------------------
(* Properties of Watcher.watch, checked under SpecWatch *)

RECURSIVE MaxLevel(_, _)
MaxLevel(levels, best) ==
    IF levels = <<>> THEN best
    ELSE MaxLevel(Tail(levels), Max(best, LevelNum(Head(levels).v)))

RoundOver ==
    wround > 0 /\ (wpc = "frames" \/ (wpc = "crashed" /\ wcause = "TypeError"))

\* C5: once a round has adjusted the awareness level, the level is the
\* maximum, in the order LOW < MEDIUM < HIGH, of the level before the round
\* and every level recommended in the round.
C5_MaxOfRound ==
    RoundOver =>
        LevelNum(current_awareness.v)
            = MaxLevel(Recommended(responses), LevelNum(prev_awareness.v))

LoggedByWatch == {"No frame available", "Alerts", "Changing awareness level"}

-----------------------------------------------------------------------------
(* Properties of the run_watcher loop, checked under SpecRun *)

Chronological(frames) ==
    \A i, j \in 1..Len(frames) :
        i < j => /\ frames[i].frame_idx < frames[j].frame_idx
                 /\ frames[i].timestamp <= frames[j].timestamp

\* C4: in every round the frame batch handed to process_frames is in
\* chronological order, oldest frame first and newest frame last.
C4_BatchChronological ==
    pc = "infer" => Chronological(batch)

C8_AlertBeforeFailure ==
    (pc = "stopped" /\ cause = "store" /\ result.success /\ result.should_alert)
        => roundAlerts >= 1

\* C10: a failed inference call never ends the loop: process_frames returns
\* the failure, the round appends its error entry and the loop is back at its
\* head; the loop ends only on a store fault, an alert fault or an interrupt.
C10_FailureContained ==
    /\ ~result.raised
    /\ pc = "stopped" => cause \in {"store", "playsound", "interrupt"}
    /\ (round > 0 /\ ~result.success /\ roundLogs = 1 /\ pc # "stopped") => pc = "read"

C10_Witness ==
    round = 2 /\ failedRounds = 1 /\ ~result.success /\ pc = "infer"

\* C11: in a round of two instructions answered (should_alert=false, LOW) and
\* (should_alert=true, HIGH), once the round is over the alert has been
\* reported and the awareness level is HIGH.
C11_AlertOnceAndHigh ==
    (/\ RoundOver
     /\ Len(responses) = 2
     /\ ~responses[1].should_alert
     /\ responses[1].recommended_awareness_level.v = "LOW"
     /\ responses[2].should_alert
     /\ responses[2].recommended_awareness_level.v = "HIGH")
        => ("Alerts" \in wlog /\ current_awareness.v = "HIGH")

-----------------------------------------------------------------------------
(* serialize_frame and deserialize_frame called directly (redis_stream.py) *)

MaxIdx == 12            \* largest frame_idx of a serialized frame

\* timestamps with and without microseconds
SerdeTimes == {0, 5, 1000000, 12500000}

SerdeFrames ==
    {Frame(data, ts, idx) : data \in Payloads, ts \in SerdeTimes, idx \in 0..MaxIdx}

\* What a stream entry handed to deserialize_frame may lack: a key, a
\* timestamp that is ISO text, an index that is decimal text
Damages ==
    {[kind |-> "none"]}
    \cup {[kind |-> "drop", key |-> k] : k \in {"frame_bytes", "timestamp", "frame_idx"}}
    \cup {[kind |-> "set", key |-> "timestamp", text |-> t] :
            t \in {<<>>, <<"x">>, <<"T", "1", ".">>}}
    \cup {[kind |-> "set", key |-> "frame_idx", text |-> t] :
            t \in {<<>>, <<"x">>, <<"1", ".", "5">>}}

Damaged(entry, damage) ==
    IF damage.kind = "none" THEN entry
    ELSE IF damage.kind = "drop"
    THEN [bk \in DOMAIN entry \ {WireKey(damage.key)} |-> entry[bk]]
    ELSE [entry EXCEPT ![WireKey(damage.key)] = damage.text]

\* the store, the loops and the camera as they stand while a library function
\* is called directly
InitLib ==
    /\ stream = <<>>
    /\ hist = <<>>
    /\ maxlen = MaxBound
    /\ approximate = TRUE
    /\ frame_idx = 0
    /\ clock = 0
    /\ lastRead = NoRead
    /\ InitRunIdle
    /\ InitWatchIdle
    /\ captured = <<>>
    /\ slept = NoSleep

\* the arguments of the call about to be made
InitSerde ==
    /\ InitLib
    /\ call \in {[fn |-> "args", frame |-> frame, damage |-> damage] :
                   frame \in SerdeFrames, damage \in Damages}

\* a frame is serialized, stored and read back as the store returns it
RoundTrip ==
    /\ call.fn = "args"
    /\ call.damage.kind = "none"
    /\ LET fields == serialize_frame(call.frame)
           entry == WireEncode(fields)
       IN  call' = [fn |-> "round_trip", frame |-> call.frame, entry |-> entry,
                    ret |-> deserialize_frame(entry)]
    /\ UNCHANGED <<storeVars, runVars, watchVars, captured, slept>>

\* deserialize_frame is handed an entry that may be damaged
DeserializeEntry ==
    /\ call.fn = "args"
    /\ LET entry == Damaged(WireEncode(serialize_frame(call.frame)), call.damage)
           ret == deserialize_frame(entry)
       IN  call' = [fn |-> "deserialize_frame", frame |-> call.frame,
                    damage |-> call.damage, entry |-> entry, ret |-> ret,
                    logged |-> IF ret = None THEN {"Failed to deserialize frame"}
                               ELSE {}]
    /\ UNCHANGED <<storeVars, runVars, watchVars, captured, slept>>

NextSerde == RoundTrip \/ DeserializeEntry

SpecSerde == InitSerde /\ [][NextSerde]_vars

\* C12: a frame that is serialized, put on the wire and deserialized comes
\* back with the same index, the same timestamp and the same payload bytes.
C12_RoundTrip ==
    call.fn = "round_trip" =>
        /\ call.ret # None
        /\ call.ret.frame_idx = call.frame.frame_idx
        /\ call.ret.timestamp = call.frame.timestamp
        /\ call.ret.frame_data = call.frame.frame_data

C12_Witness ==
    /\ call.fn = "round_trip"
    /\ call.frame.timestamp % 1000000 # 0
    /\ call.frame.frame_idx >= 10
    /\ call.ret = call.frame

\* C13: deserialize_frame never raises; it returns None, and logs, when the
\* entry lacks frame_bytes, timestamp or frame_idx or when the timestamp or
\* the index does not parse, and a Frame only when nothing is missing or
\* unparsable.
C13_NoneOnDamage ==
    call.fn = "deserialize_frame" =>
        /\ "raised" \notin DOMAIN call.ret
        /\ call.damage.kind # "none" => (call.ret = None /\ call.logged # {})
        /\ call.damage.kind = "none" => (call.ret = call.frame /\ call.logged = {})

C13_Witness ==
    /\ call.fn = "deserialize_frame"
    /\ call.damage.kind = "set" /\ call.damage.key = "timestamp"
    /\ call.ret = None

-----------------------------------------------------------------------------
(* CameraStream.capture_new_frame (camera_stream.py) *)

MaxCalls == 7           \* capture_new_frame calls made on one CameraStream

\* What the capture device and the encoder do in one call: grab() returns
\* False, retrieve() returns ret False, imencode returns ret False, one of
\* the cv2 calls raises, or a JPEG buffer is produced
CaptureOutcomes ==
    {[kind |-> k] : k \in {"grab_fails", "retrieve_fails", "encode_fails", "raises"}}
    \cup {[kind |-> "jpeg", data |-> d] : d \in Payloads}

\* capture_new_frame that numbers frames by the calls made
capture_new_frame_per_call(idx, now, outcome) ==
    IF outcome.kind = "raises" THEN [ret |-> [raised |-> "cv2.error"], frame_idx |-> idx]
    ELSE IF outcome.kind = "jpeg"
    THEN [ret |-> Frame(outcome.data, now, idx), frame_idx |-> idx + 1]
    ELSE [ret |-> None, frame_idx |-> idx + 1]

\* capture_new_frame that takes the index before the encoding is checked
capture_new_frame_early(idx, now, outcome) ==
    IF outcome.kind \in {"grab_fails", "retrieve_fails"} THEN [ret |-> None, frame_idx |-> idx]
    ELSE IF outcome.kind = "raises" THEN [ret |-> [raised |-> "cv2.error"], frame_idx |-> idx]
    ELSE IF outcome.kind = "encode_fails" THEN [ret |-> None, frame_idx |-> idx + 1]
    ELSE [ret |-> Frame(outcome.data, now, idx), frame_idx |-> idx + 1]

\* the value the call returns (or the exception leaving it) and self.frame_idx
\* after the call
capture_new_frame(idx, now, outcome) ==
    IF outcome.kind = "grab_fails" THEN [ret |-> None, frame_idx |-> idx]
    ELSE IF outcome.kind = "retrieve_fails" THEN [ret |-> None, frame_idx |-> idx]
    ELSE IF outcome.kind = "raises" THEN [ret |-> [raised |-> "cv2.error"], frame_idx |-> idx]
    ELSE IF outcome.kind = "encode_fails" THEN [ret |-> None, frame_idx |-> idx]
    ELSE [ret |-> Frame(outcome.data, now, idx), frame_idx |-> idx + 1]

IsFrame(x) == "frame_data" \in DOMAIN x

InitCamera == InitLib /\ call = NoCall

CaptureNewFrame ==
    /\ clock < MaxCalls
    /\ \E outcome \in CaptureOutcomes :
         LET c == capture_new_frame(frame_idx, clock, outcome)
         IN  /\ frame_idx' = c.frame_idx
             /\ captured' = IF IsFrame(c.ret) THEN Append(captured, c.ret.frame_idx)
                             ELSE captured
             /\ call' = [fn |-> "capture_new_frame", outcome |-> outcome.kind,
                          ret |-> c.ret, before |-> frame_idx]
    /\ clock' = clock + 1
    /\ UNCHANGED <<stream, hist, maxlen, approximate, lastRead, runVars, watchVars, slept>>

NextCamera == CaptureNewFrame

SpecCamera == InitCamera /\ [][NextCamera]_vars

\* C14: the Frames returned by successive capture_new_frame calls carry the
\* indices 0, 1, 2, ... in order, with no gap and no index used twice,
\* whatever failed calls come between them.
C14_IndicesInOrder ==
    captured = [i \in 1..Len(captured) |-> i - 1]

C14_Witness ==
    /\ Len(captured) = 3
    /\ clock = 5
    /\ call.fn = "capture_new_frame" /\ IsFrame(call.ret) /\ call.ret.frame_idx = 2

\* C15: a capture_new_frame call that finds nothing to grab, fails to
\* retrieve or fails to encode returns None and leaves frame_idx as it was;
\* frame_idx changes only in a call that returns a Frame, and then by one.
C15_FailureKeepsIndex ==
    call.fn = "capture_new_frame" =>
        /\ call.outcome \in {"grab_fails", "retrieve_fails", "encode_fails"} =>
              (call.ret = None /\ frame_idx = call.before)
        /\ frame_idx # call.before =>
              (IsFrame(call.ret) /\ frame_idx = call.before + 1)
        /\ IsFrame(call.ret) => frame_idx = call.before + 1

C15_Witness ==
    /\ call.fn = "capture_new_frame" /\ call.outcome = "encode_fails"
    /\ call.ret = None
    /\ call.before = 2 /\ frame_idx = 2

-----------------------------------------------------------------------------
(* add_frame and add_logs seen from the store: the xadd calls they issue *)

MaxAppends == 3         \* add_frame / add_logs calls made

XaddCall(name, fields, mlen, approx) ==
    [name |-> name, fields |-> fields, maxlen |-> mlen, approximate |-> approx]

Returned(value) == [raised |-> FALSE, value |-> value]

Propagated(error) == [raised |-> TRUE, value |-> error]

\* add_frame that calls xadd again when the first call fails
add_frame_retry(frame, key, mlen, approx, replies) ==
    LET c == XaddCall(key, serialize_frame(frame), mlen, approx)
    IN  IF replies[1].ok THEN [xadds |-> <<c>>, ret |-> Returned(replies[1].entry_id)]
        ELSE [xadds |-> <<c, c>>,
              ret |-> IF replies[2].ok THEN Returned(replies[2].entry_id)
                      ELSE Propagated(replies[2].error)]

\* the xadd calls one add_frame call issues and what it returns or lets
\* propagate; replies[i] is the store's answer to the i-th xadd call
add_frame_call(frame, key, mlen, approx, replies) ==
    LET data == serialize_frame(frame)
        c == XaddCall(key, data, mlen, approx)
    IN  [xadds |-> <<c>>,
         ret |-> IF replies[1].ok THEN Returned(replies[1].entry_id)
                 ELSE Propagated(replies[1].error)]

add_logs_call(key, data, mlen, approx, replies) ==
    LET c == XaddCall(key, data, mlen, approx)
    IN  [xadds |-> <<c>>,
         ret |-> IF replies[1].ok THEN Returned(replies[1].entry_id)
                 ELSE Propagated(replies[1].error)]

\* the answers of the store to two successive xadd calls on a stream that has
\* seen n appends: the id of the entry it added (an added entry takes the next
\* id), or a failure (connection lost, key of the wrong type)
Answers(n) ==
    {<<r1, r2>> : r1 \in {[ok |-> TRUE, entry_id |-> n + 1],
                          [ok |-> FALSE, error |-> "ConnectionError"]},
                  r2 \in {[ok |-> TRUE, entry_id |-> n + 2],
                          [ok |-> FALSE, error |-> "ConnectionError"]}}

\* the stream contents the store may hold after the xadd calls it answered
\* with an id
RECURSIVE AfterXadds(_, _, _, _)
AfterXadds(s, n, xadds, replies) ==
    IF xadds = <<>> THEN {s}
    ELSE IF ~Head(replies).ok THEN AfterXadds(s, n, Tail(xadds), Tail(replies))
    ELSE UNION {AfterXadds(s2, n + 1, Tail(xadds), Tail(replies)) :
                  s2 \in xadd(s, n + 1, Head(xadds).fields, Head(xadds).maxlen,
                              Head(xadds).approximate)}

RECURSIVE Added(_, _, _)
Added(n, xadds, replies) ==
    IF xadds = <<>> THEN <<>>
    ELSE IF ~Head(replies).ok THEN Added(n, Tail(xadds), Tail(replies))
    ELSE <<[id |-> n + 1, fields |-> Head(xadds).fields]>>
           \o Added(n + 1, Tail(xadds), Tail(replies))

AddFrames == {Frame(<<255, 216>>, 1500000, idx) : idx \in 0..1}

LogData == {[timestamp |-> 0, error |-> <<"No frames provided">>],
            [timestamp |-> 0, should_alert |-> 1, awareness_level |-> "HIGH",
             reasoning |-> "reasoning"]}

InitAdd == InitLib /\ call = NoCall

CallAddFrame ==
    /\ Len(hist) + Len(logs) < MaxAppends
    /\ \E frame \in AddFrames, mlen \in 1..2, approx \in BOOLEAN,
          replies \in Answers(Len(hist)) :
         LET c == add_frame_call(frame, "room:realtime", mlen, approx, replies)
         IN  /\ stream' \in AfterXadds(stream, Len(hist), c.xadds, replies)
             /\ hist' = hist \o Added(Len(hist), c.xadds, replies)
             /\ call' = [fn |-> "add_frame", key |-> "room:realtime",
                          data |-> serialize_frame(frame), replies |-> replies,
                          xadds |-> c.xadds, ret |-> c.ret]
    /\ UNCHANGED <<maxlen, approximate, frame_idx, clock, lastRead, runVars,
                   watchVars, captured, slept>>

CallAddLogs ==
    /\ Len(hist) + Len(logs) < MaxAppends
    /\ \E data \in LogData, replies \in Answers(Len(logs)) :
         LET c == add_logs_call("room:logs", data, LogsMaxlen, TRUE, replies)
         IN  /\ logs' \in AfterXadds(logs, Len(logs), c.xadds, replies)
             /\ call' = [fn |-> "add_logs", key |-> "room:logs",
                          data |-> data, replies |-> replies,
                          xadds |-> c.xadds, ret |-> c.ret]
    /\ UNCHANGED <<storeVars, watchVars, captured, slept, pc, batch, result, round,
                   roundLogs, roundAlerts, failedRounds, cause>>

NextAdd == CallAddFrame \/ CallAddLogs

SpecAdd == InitAdd /\ [][NextAdd]_vars

\* C16: an add_frame or add_logs call issues exactly one xadd call, for the
\* given key and field map, and never a second one; it returns the entry id
\* the store answered, unchanged, and when the store call fails the failure
\* leaves the method instead of a value.
C16_OneAppendCall ==
    call.fn \in {"add_frame", "add_logs"} =>
        /\ Len(call.xadds) = 1
        /\ call.xadds[1].name = call.key
        /\ call.xadds[1].fields = call.data
        /\ call.replies[1].ok =>
              (~call.ret.raised /\ call.ret.value = call.replies[1].entry_id)
        /\ ~call.replies[1].ok =>
              (call.ret.raised /\ call.ret.value = call.replies[1].error)

C16_Witness ==
    /\ call.fn = "add_frame"
    /\ ~call.replies[1].ok /\ call.replies[2].ok
    /\ Len(call.xadds) = 1 /\ call.ret.raised
    /\ Len(hist) = 1

-----------------------------------------------------------------------------
(* Watcher.process_frames called directly *)

MaxBatch == 2           \* frames in the batch handed to process_frames

InferBatches ==
    {[i \in 1..n |-> Frame(<<255, 216>>, (i - 1) * 1000000, i - 1)] : n \in 0..MaxBatch}

InitInfer ==
    /\ InitLib
    /\ call \in {[fn |-> "args", frames |-> frames, reply |-> reply] :
                   frames \in InferBatches, reply \in InferReplies}

ProcessFrames ==
    /\ call.fn = "args"
    /\ call' = [fn |-> "process_frames", frames |-> call.frames, reply |-> call.reply,
                 ret |-> process_frames(call.frames, call.reply),
                 requests |-> endpoint_calls(call.frames, call.reply)]
    /\ UNCHANGED <<storeVars, runVars, watchVars, captured, slept>>

NextInfer == ProcessFrames

SpecInfer == InitInfer /\ [][NextInfer]_vars

C18_AllFieldsOrFailure ==
    (call.fn = "process_frames" /\ call.frames # <<>> /\ call.reply.kind = "object") =>
        IF call.reply.fields = ResponseFields /\ call.reply.level \in AwarenessLevels
        THEN /\ call.ret.success
             /\ call.ret.should_alert = call.reply.should_alert
             /\ call.ret.recommended_awareness_level = call.reply.level
        ELSE /\ ~call.ret.success /\ ~call.ret.raised
             /\ call.ret.error = <<"ValidationError", "Raw response: ", call.reply>>

C18_Witness ==
    /\ call.fn = "process_frames" /\ call.frames # <<>>
    /\ call.reply.kind = "object"
    /\ call.reply.fields = {"should_alert", "reasoning"}
    /\ ~call.ret.success

\* C19: on a non-empty batch process_frames never raises: a failure while
\* encoding, in the endpoint call, in parsing or in building the parse-failure
\* message comes back as a result with success False and an error description.
C19_NeverRaises ==
    (call.fn = "process_frames" /\ call.frames # <<>>) =>
        /\ ~call.ret.raised
        /\ call.reply.kind \in {"base64_raises", "raise", "none", "invalid"} =>
              (~call.ret.success /\ call.ret.error # <<>>)

C19_Witness ==
    /\ call.fn = "process_frames" /\ Len(call.frames) = 2
    /\ call.reply.kind = "none"
    /\ call.ret = Failure(<<"TypeError">>)

-----------------------------------------------------------------------------
(* Watcher._calculate_fps *)

MaxFpsFrames == 4       \* frames in the list handed to _calculate_fps

default_fps == 2

\* timestamps of the frames, in microseconds
FpsTimes == {0, 100, 400000, 1000000, 2000000, 1000000000}

Abs(x) == IF x < 0 THEN -x ELSE x

\* round(num / den) for den > 0: the nearest integer, a tie going to the even
\* one
PyRound(num, den) ==
    LET q == num \div den
        r == num % den
    IN  IF 2 * r < den THEN q
        ELSE IF 2 * r > den THEN q + 1
        ELSE IF q % 2 = 0 THEN q ELSE q + 1

\* _calculate_fps that returns whatever rate it computed
calculate_fps_unbanded(frames, default) ==
    IF Len(frames) < 2 THEN default
    ELSE LET time_diff == frames[Len(frames)].timestamp - frames[1].timestamp
         IN  IF time_diff <= 0 THEN default
             ELSE PyRound((Len(frames) - 1) * 1000000, time_diff)

\* lines 72-90; time_diff is in microseconds, and fps < 0.02 is 100 * fps < 2
calculate_fps(frames, default) ==
    IF Len(frames) < 2 THEN default
    ELSE LET time_diff == frames[Len(frames)].timestamp - frames[1].timestamp
         IN  IF time_diff <= 0 THEN default
             ELSE LET fps == PyRound((Len(frames) - 1) * 1000000, time_diff)
                  IN  IF 100 * fps < 2 \/ fps > 60 THEN default ELSE fps

\* the frames whose timestamps are ts, in list order
FpsFrames(ts) == [i \in 1..Len(ts) |-> Frame(<<255, 216>>, ts[i], i - 1)]

InitFps ==
    /\ InitLib
    /\ \E n \in 0..MaxFpsFrames, d \in {default_fps, 5} :
         \E ts \in [1..n -> FpsTimes] :
            call = [fn |-> "args", frames |-> FpsFrames(ts), default |-> d]

CalculateFps ==
    /\ call.fn = "args"
    /\ call' = [fn |-> "_calculate_fps", frames |-> call.frames, default |-> call.default,
                 ret |-> calculate_fps(call.frames, call.default)]
    /\ UNCHANGED <<storeVars, runVars, watchVars, captured, slept>>

NextFps == CalculateFps

SpecFps == InitFps /\ [][NextFps]_vars

\* r is the integer nearest to num / den, the even one of two equally near
Nearest(r, num, den) ==
    \/ 2 * Abs(r * den - num) < den
    \/ 2 * Abs(r * den - num) = den /\ r % 2 = 0

\* C20: with fewer than 2 frames, or with no more than 0 seconds between the
\* first and the last frame, _calculate_fps returns the default; otherwise it
\* returns (count - 1) / elapsed seconds rounded to the nearest integer when
\* that is between 1 and 60, and the default when it is 0 or above 60.
C20_RateOrDefault ==
    call.fn = "_calculate_fps" =>
        LET n == Len(call.frames)
            elapsed == call.frames[n].timestamp - call.frames[1].timestamp
            num == (n - 1) * 1000000
        IN  IF n < 2 \/ elapsed <= 0 THEN call.ret = call.default
            ELSE \E r \in {num \div elapsed, num \div elapsed + 1} :
                    /\ Nearest(r, num, elapsed)
                    /\ call.ret = IF r >= 1 /\ r <= 60 THEN r ELSE call.default

\* 3 frames one second apart
C20_Witness ==
    /\ call.fn = "_calculate_fps"
    /\ Len(call.frames) = 3
    /\ call.frames[1].timestamp = 0
    /\ call.frames[2].timestamp = 1000000
    /\ call.frames[3].timestamp = 2000000
    /\ call.default = 5
    /\ call.ret = 1

-----------------------------------------------------------------------------
(* Further properties of the run_watcher loop, checked under SpecRun *)

\* the awareness state an AwarenessController starting at MEDIUM would hold
\* after the successful rounds logged in entries[1..i]
RECURSIVE StateAfter(_, _)
StateAfter(entries, i) ==
    IF i = 0 THEN 2
    ELSE IF "awareness_level" \in DOMAIN entries[i].fields
    THEN Max(StateAfter(entries, i - 1), LevelNum(entries[i].fields.awareness_level))
    ELSE StateAfter(entries, i - 1)

SuccessFields == {"timestamp", "should_alert", "awareness_level", "reasoning"}

FailureFields == {"timestamp", "error"}

\* C22: every entry of the logs stream is a success entry (timestamp,
\* should_alert 0 or 1, awareness_level LOW, MEDIUM or HIGH, reasoning, no
\* error) or a failure entry (timestamp and the error message, no alert field).
C22_TwoShapes ==
    \A i \in 1..Len(logs) :
        LET fields == logs[i].fields
        IN  \/ /\ DOMAIN fields = SuccessFields
               /\ fields.should_alert \in {0, 1}
               /\ fields.awareness_level \in AwarenessLevels
            \/ /\ DOMAIN fields = FailureFields
               /\ fields.error # <<>>

C22_Witness ==
    /\ Len(logs) = 2
    /\ DOMAIN logs[1].fields = SuccessFields /\ logs[1].fields.should_alert = 1
    /\ DOMAIN logs[2].fields = FailureFields
    /\ logs[2].fields.error = <<"APIConnectionError">>

\* C23: an iteration whose read returns no frames makes no inference call,
\* appends no log entry, plays no alert and raises nothing; it sleeps the
\* fixed 0.3 s and the loop is back at its read.
C23_EmptyReadIdles ==
    [][(/\ pc = "read"
        /\ get_latest_frames(stream, num_frames_to_process) = <<>>
        /\ stream' = stream
        /\ cause' \notin {"store", "interrupt"})
       => (/\ pc' = "read"
           /\ cause' = "none"
           /\ slept' = [by |-> "empty_read", ms |-> RetrySleep]
           /\ UNCHANGED <<batch, result, logs, round, roundLogs, roundAlerts,
                          failedRounds>>)]_vars

C23_Witness ==
    /\ slept = [by |-> "empty_read", ms |-> RetrySleep]
    /\ pc = "read" /\ stream = <<>>
    /\ round = 0 /\ logs = <<>> /\ roundAlerts = 0 /\ cause = "none"

\* C24: the step that handles an interrupt leaves the loop and appends
\* nothing to the logs stream, and no later step appends to it.
C24_NoAppendOnInterrupt ==
    [][cause' = "interrupt" => (pc' = "stopped" /\ logs' = logs)]_vars

C24_Witness ==
    /\ pc = "stopped" /\ cause = "interrupt"
    /\ round = 2 /\ roundLogs = 0 /\ Len(logs) = 1

-----------------------------------------------------------------------------
(* Further properties of Watcher.watch, checked under SpecWatch *)

\* C26: once a round is over the loop has slept, in that round, the cadence
\* period of the awareness level less the round's processing time, and zero
\* when the round took a period or longer.
C26_SleepsTheRemainder ==
    RoundOver =>
        /\ slept.by = "watch"
        /\ slept.round = wround
        /\ slept.ms = Max(0, Period(FPS_CONFIG[prev_awareness.v]) - slept.elapsed)

-----------------------------------------------------------------------------
(* Watcher.__init__ of src/ai_baby_monitor/watcher.py: the cadence map *)

\* rates a caller may put in fps_config, in thousandths of a frame per second
Rates == {500, 1000, 2000, 4000}

\* the fps_config argument: None, an empty dict, or a dict giving every level
\* a rate
FpsConfigs ==
    {[kind |-> "None"], [kind |-> "dict", map |-> <<>>]}
    \cup {[kind |-> "dict", map |-> m] : m \in [AwarenessLevels -> Rates]}

\* fps_config or self.FPS_CONFIG
watcher_fps_config(fps_config) ==
    IF fps_config.kind = "None" \/ DOMAIN fps_config.map = {} THEN FPS_CONFIG
    ELSE fps_config.map

InitWatcherInit ==
    /\ InitLib
    /\ call \in {[fn |-> "args", fps_config |-> c] : c \in FpsConfigs}

WatcherInit ==
    /\ call.fn = "args"
    /\ call' = [fn |-> "Watcher.__init__", arg |-> call.fps_config,
                 current_awareness |-> Enum("MEDIUM"),
                 fps_config |-> watcher_fps_config(call.fps_config)]
    /\ UNCHANGED <<storeVars, runVars, watchVars, captured, slept>>

NextWatcherInit == WatcherInit

SpecWatcherInit == InitWatcherInit /\ [][NextWatcherInit]_vars

\* C27: in the cadence map of a constructed Watcher the rate at HIGH is at
\* least the rate at MEDIUM, which is at least the rate at LOW.
C27_RatesOrdered ==
    call.fn = "Watcher.__init__" =>
        /\ call.fps_config["HIGH"] >= call.fps_config["MEDIUM"]
        /\ call.fps_config["MEDIUM"] >= call.fps_config["LOW"]

-----------------------------------------------------------------------------
(* CameraStream._init_capture (camera_stream.py) *)

MaxRetries == 4         \* largest max_retries a caller passes (the default is 3)

\* What one cv2.VideoCapture(uri) attempt does: the device opens, isOpened()
\* is False, or the constructor raises
OpenOutcomes == {"opened", "closed", "raises"}

\* while retries <= max_retries
MayAttempt_inclusive(retries, max_retries) == retries <= max_retries

\* line 45: while retries < max_retries
MayAttempt(retries, max_retries) == retries < max_retries

InitOpen ==
    /\ InitLib
    /\ call \in {[fn |-> "_init_capture", uri |-> uri, max_retries |-> m, retries |-> 0,
                   attempts |-> <<>>, sleeps |-> 0, status |-> "running"] :
                   uri \in {"0", "rtsp://camera"}, m \in 0..MaxRetries}

\* lines 47-50: the device opens and the capture is returned
VideoCaptureOpens ==
    /\ call.fn = "_init_capture" /\ call.status = "running"
    /\ MayAttempt(call.retries, call.max_retries)
    /\ call' = [call EXCEPT !.attempts = Append(@, "opened"), !.status = "returned"]
    /\ UNCHANGED <<storeVars, runVars, watchVars, captured, slept>>

\* lines 51-57: the attempt fails; it is counted and followed by time.sleep(2)
VideoCaptureFails ==
    /\ call.fn = "_init_capture" /\ call.status = "running"
    /\ MayAttempt(call.retries, call.max_retries)
    /\ \E outcome \in OpenOutcomes \ {"opened"} :
         call' = [call EXCEPT !.attempts = Append(@, outcome),
                              !.retries = @ + 1,
                              !.sleeps = @ + 1]
    /\ UNCHANGED <<storeVars, runVars, watchVars, captured, slept>>

\* line 58: raise ConnectionError
OpenGivesUp ==
    /\ call.fn = "_init_capture" /\ call.status = "running"
    /\ ~MayAttempt(call.retries, call.max_retries)
    /\ call' = [call EXCEPT !.status = "ConnectionError"]
    /\ UNCHANGED <<storeVars, runVars, watchVars, captured, slept>>

NextOpen == VideoCaptureOpens \/ VideoCaptureFails \/ OpenGivesUp

\* the method runs on its own thread of control: a step that can be taken is
\* taken
SpecOpen == InitOpen /\ [][NextOpen]_vars /\ WF_vars(NextOpen)

OpenSafe ==
    LET n == Len(call.attempts)
    IN  /\ n <= call.max_retries
        /\ \A i \in 1..(n - 1) : call.attempts[i] # "opened"
        /\ call.status = "returned" => (n >= 1 /\ call.attempts[n] = "opened")
        /\ call.status = "running" => (n = 0 \/ call.attempts[n] # "opened")
        /\ call.status = "ConnectionError" =>
              (n = call.max_retries /\ (n = 0 \/ call.attempts[n] # "opened"))

\* C28: _init_capture makes at most max_retries open attempts, none after the
\* first one that opens the device, which it returns; it raises
\* ConnectionError only after max_retries failed attempts; and it always ends
\* in one of the two.
C28_OpenTerminates ==
    /\ [](call.fn = "_init_capture" => OpenSafe)
    /\ <>(call.status \in {"returned", "ConnectionError"})

C28_Witness ==
    /\ call.fn = "_init_capture" /\ call.max_retries = 3
    /\ call.status = "ConnectionError"
    /\ call.attempts = <<"closed", "raises", "closed">>
    /\ call.sleeps = 3

-----------------------------------------------------------------------------
(* get_instructions_prompt (base_prompt.py), Watcher.__init__ and the request
   of Watcher.process_frames (watcher/watcher.py), and the entry point of
   scripts/run_watcher.py *)

MaxRequests == 3        \* requests built over the life of one Watcher

Rules == {"stay in the crib", "no climbing"}

\* instruction lists a room configuration or a caller supplies
InstructionLists ==
    UNION {[1..n -> Rules] : n \in 0..MaxInstructions}

RECURSIVE Join(_, _)
\* str.join: the items with the separator between neighbours
Join(items, separator) ==
    IF Len(items) = 0 THEN <<>>
    ELSE IF Len(items) = 1 THEN <<items[1]>>
    ELSE <<items[1], separator>> \o Join(Tail(items), separator)

\* the body of the template, for any list
render_prompt(instructions) ==
    [text |-> <<"You are given the following instructions: ">>
              \o Join(instructions, "\n * ")
              \o <<".", "If the instructions are violated, you should alert the user.",
                   "Please generate a structured response in raw JSON format">>]

\* a prompt function without the emptiness check
get_instructions_prompt_lenient(instructions) == render_prompt(instructions)

\* base_prompt.py:1-19
get_instructions_prompt(instructions) ==
    IF Len(instructions) = 0
    THEN [raised |-> "ValueError", message |-> "Instructions must be a non-empty list"]
    ELSE render_prompt(instructions)

NoWatcher == [text |-> <<>>]

InitStart ==
    /\ InitLib
    /\ call \in {[fn |-> entry, given |-> l, instructions |-> l, at |-> "start",
                   prompt |-> NoWatcher, renders |-> 0, requests |-> <<>>,
                   exit_code |-> 0, error |-> "none"] :
                   entry \in {"__main__", "Watcher"}, l \in InstructionLists}

\* Watcher(instructions=...) called directly: __init__ renders the prompt and
\* keeps the text; a ValueError from the rendering leaves no Watcher
WatcherConstruct ==
    /\ call.fn = "Watcher" /\ call.at = "start"
    /\ LET p == get_instructions_prompt(call.instructions)
       IN  call' = IF "raised" \in DOMAIN p
                   THEN [call EXCEPT !.at = "raised", !.error = p.raised]
                   ELSE [call EXCEPT !.at = "constructed", !.prompt = p, !.renders = @ + 1]
    /\ UNCHANGED <<storeVars, runVars, watchVars, captured, slept>>

\* run_watcher.py:155-195: an empty list ends the process with exit(1) (the
\* SystemExit passes the except Exception clause); otherwise run_watcher
\* constructs the Watcher and enters its loop, and an exception of the
\* construction is logged and ends the process with exit(1)
Main ==
    /\ call.fn = "__main__" /\ call.at = "start"
    /\ IF Len(call.instructions) = 0
       THEN call' = [call EXCEPT !.at = "exited", !.exit_code = 1,
                                 !.error = "instructions list is empty or missing"]
       ELSE LET p == get_instructions_prompt(call.instructions)
            IN  call' = IF "raised" \in DOMAIN p
                        THEN [call EXCEPT !.at = "exited", !.exit_code = 1,
                                          !.error = "Failed to start watcher"]
                        ELSE [call EXCEPT !.at = "loop", !.prompt = p, !.renders = @ + 1]
    /\ UNCHANGED <<storeVars, runVars, watchVars, captured, slept>>

\* a request whose text is rendered again from the caller's list
BuildRequest_rerender ==
    /\ call.fn \in {"__main__", "Watcher"} /\ call.at \in {"constructed", "loop"}
    /\ Len(call.requests) < MaxRequests
    /\ call' = [call EXCEPT !.requests =
                    Append(@, [system |-> "You are a helpful assistant and baby sitter.",
                               text |-> render_prompt(call.instructions)])]
    /\ UNCHANGED <<storeVars, runVars, watchVars, captured, slept>>

\* watcher.py:118-128: process_frames, given frames, builds the messages of
\* one request from the fixed system role and self.instructions_prompt
BuildRequest ==
    /\ call.fn \in {"__main__", "Watcher"} /\ call.at \in {"constructed", "loop"}
    /\ Len(call.requests) < MaxRequests
    /\ call' = [call EXCEPT !.requests =
                    Append(@, [system |-> "You are a helpful assistant and baby sitter.",
                               text |-> call.prompt])]
    /\ UNCHANGED <<storeVars, runVars, watchVars, captured, slept>>

\* the caller changes its own list after the Watcher is constructed; __init__
\* kept the rendered string, not the list
CallerEditsList ==
    /\ call.fn = "Watcher" /\ call.at = "constructed"
    /\ \E l \in InstructionLists \ {call.instructions} :
         call' = [call EXCEPT !.instructions = l]
    /\ UNCHANGED <<storeVars, runVars, watchVars, captured, slept>>

NextStart == WatcherConstruct \/ Main \/ BuildRequest \/ CallerEditsList

SpecStart == InitStart /\ [][NextStart]_vars

StartCall == call.fn \in {"__main__", "Watcher"}

\* C29: the prompt is rendered once, at construction, from the list the
\* Watcher was configured with, and every request built afterwards carries
\* exactly that text.
C29_PromptRenderedOnce ==
    StartCall =>
        /\ call.renders <= 1
        /\ call.at \in {"constructed", "loop"} =>
              (call.renders = 1 /\ call.prompt = get_instructions_prompt(call.given))
        /\ \A i \in 1..Len(call.requests) :
              call.requests[i].text = get_instructions_prompt(call.given)

C29_Witness ==
    /\ call.fn = "Watcher" /\ call.at = "constructed"
    /\ call.given = <<"stay in the crib", "no climbing">>
    /\ call.instructions = <<"no climbing">>
    /\ Len(call.requests) = MaxRequests

\* C30: with an empty instruction list no Watcher is constructed (the
\* constructor ends in ValueError), and the run_watcher entry point exits with
\* status 1 without constructing a Watcher or entering the loop; no request
\* is ever built.
C30_EmptyListRejected ==
    (StartCall /\ Len(call.given) = 0) =>
        /\ call.prompt = NoWatcher /\ call.renders = 0 /\ call.requests = <<>>
        /\ call.fn = "Watcher" =>
              (call.at \in {"start", "raised"} /\ (call.at = "raised" => call.error = "ValueError"))
        /\ call.fn = "__main__" =>
              (call.at \in {"start", "exited"} /\ (call.at = "exited" => call.exit_code = 1))

C30_Witness ==
    /\ call.fn = "__main__" /\ call.given = <<>>
    /\ call.at = "exited" /\ call.exit_code = 1

-----------------------------------------------------------------------------
(* stream_to_redis (scripts/stream_to_redis.py): the producer's loop.  The
   variable stream is {room}:subsampled; {room}:realtime is kept in call. *)

MaxRate == 3            \* largest subsample_rate a room is configured with

RealtimeMaxlen == 3

\* what one capture_new_frame call of the loop meets
ProducerOutcomes ==
    {[kind |-> "grab_fails"], [kind |-> "raises"], [kind |-> "jpeg", data |-> <<255, 216>>]}

\* every subsample_rate-th frame, counted from one
ToSubsampled_from_one(idx, subsample_rate) == (idx + 1) % subsample_rate = 0

\* line 78: if frame.frame_idx % subsample_rate == 0
ToSubsampled(idx, subsample_rate) == idx % subsample_rate = 0

\* close() called whether or not the camera was constructed
CloseCalls_always(camera) == 1

\* lines 93-95: finally: if "camera" in locals(): camera.close()
CloseCalls(camera) == IF camera = "open" THEN 1 ELSE 0

\* the except clauses and the finally clause that end stream_to_redis
ProducerEnds(why) ==
    [call EXCEPT !.at = "ended", !.was = call.at, !.cause = why,
                 !.closes = @ + CloseCalls(call.camera)]

InitProducer ==
    /\ stream = <<>>
    /\ hist = <<>>
    /\ maxlen \in 1..MaxBound
    /\ approximate = TRUE
    /\ frame_idx = 0
    /\ clock = 0
    /\ lastRead = NoRead
    /\ InitRunIdle
    /\ InitWatchIdle
    /\ captured = <<>>
    /\ slept = NoSleep
    /\ call \in {[fn |-> "stream_to_redis", subsample_rate |-> n, at |-> "start",
                   was |-> "start", camera |-> "none", closes |-> 0, cause |-> "none",
                   frame |-> None, realtime |-> <<>>, realtime_hist |-> <<>>] :
                   n \in 1..MaxRate}

\* lines 50-56: CameraStream(...) returns the camera or raises ConnectionError
OpenCamera ==
    /\ call.fn = "stream_to_redis" /\ call.at = "start"
    /\ \E opened \in BOOLEAN :
         call' = IF opened THEN [call EXCEPT !.at = "handler", !.camera = "open"]
                 ELSE ProducerEnds("ConnectionError")
    /\ UNCHANGED <<storeVars, runVars, watchVars, captured, slept>>

\* lines 58-62: RedisStreamHandler(...) returns the handler or raises
OpenHandler ==
    /\ call.fn = "stream_to_redis" /\ call.at = "handler"
    /\ \E made \in BOOLEAN :
         call' = IF made THEN [call EXCEPT !.at = "capture"]
                 ELSE ProducerEnds("RedisError")
    /\ UNCHANGED <<storeVars, runVars, watchVars, captured, slept>>

\* lines 66-69, 86-88: one capture_new_frame call of the loop
ProducerCapture ==
    /\ call.fn = "stream_to_redis" /\ call.at = "capture"
    /\ frame_idx < MaxFrames
    /\ \E outcome \in ProducerOutcomes :
         LET c == capture_new_frame(frame_idx, clock, outcome)
         IN  IF "raised" \in DOMAIN c.ret
             THEN /\ call' = ProducerEnds(c.ret.raised)
                  /\ UNCHANGED <<frame_idx, clock, captured, slept>>
             ELSE IF IsFrame(c.ret)
             THEN /\ call' = [call EXCEPT !.at = "realtime", !.frame = c.ret]
                  /\ frame_idx' = c.frame_idx
                  /\ clock' = clock + 1
                  /\ captured' = Append(captured, c.ret.frame_idx)
                  /\ UNCHANGED slept
             ELSE /\ slept' = [by |-> "stream_to_redis", ms |-> 10]
                  /\ UNCHANGED <<call, frame_idx, clock, captured>>
    /\ UNCHANGED <<stream, hist, maxlen, approximate, lastRead, runVars, watchVars>>

\* lines 70-78: add_frame to {room}:realtime, then the subsampling test
AppendRealtime ==
    /\ call.fn = "stream_to_redis" /\ call.at = "realtime"
    /\ \E stored \in BOOLEAN :
         IF stored
         THEN LET id == Len(call.realtime_hist) + 1
              IN  \E s2 \in add_frame(call.realtime, id, call.frame, RealtimeMaxlen, FALSE) :
                    call' = [call EXCEPT
                               !.realtime = s2,
                               !.realtime_hist =
                                   Append(@, [id |-> id,
                                              fields |-> WireEncode(serialize_frame(call.frame))]),
                               !.at = IF ToSubsampled(call.frame.frame_idx, call.subsample_rate)
                                      THEN "subsampled" ELSE "capture"]
         ELSE call' = ProducerEnds("RedisError")
    /\ UNCHANGED <<storeVars, runVars, watchVars, captured, slept>>

\* lines 78-85: add_frame to {room}:subsampled
AppendSubsampled ==
    /\ call.fn = "stream_to_redis" /\ call.at = "subsampled"
    /\ \E stored \in BOOLEAN :
         IF stored
         THEN LET id == Len(hist) + 1
              IN  /\ \E s2 \in add_frame(stream, id, call.frame, maxlen, approximate) :
                        stream' = s2
                  /\ hist' = Append(hist, [id |-> id,
                                            fields |-> WireEncode(serialize_frame(call.frame))])
                  /\ call' = [call EXCEPT !.at = "capture"]
         ELSE /\ call' = ProducerEnds("RedisError")
              /\ UNCHANGED <<stream, hist>>
    /\ UNCHANGED <<maxlen, approximate, frame_idx, clock, lastRead, runVars, watchVars,
                   captured, slept>>

\* lines 90-91: KeyboardInterrupt raised anywhere inside the try block
ProducerInterrupt ==
    /\ call.fn = "stream_to_redis" /\ call.at # "ended"
    /\ call' = ProducerEnds("KeyboardInterrupt")
    /\ UNCHANGED <<storeVars, runVars, watchVars, captured, slept>>

NextProducer ==
    OpenCamera \/ OpenHandler \/ ProducerCapture \/ AppendRealtime \/ AppendSubsampled \/ ProducerInterrupt

SpecProducer == InitProducer /\ [][NextProducer]_vars

\* the frame indices carried by the entries of a stream, in stream order
IdxOf(entries) ==
    [i \in 1..Len(entries) |-> deserialize_frame(entries[i].fields).frame_idx]

\* where the loop stands, or stood when it ended
ProducerAt == IF call.at = "ended" THEN call.was ELSE call.at

\* C31: every captured frame goes to {room}:realtime first, and then to
\* {room}:subsampled exactly when its index is a multiple of subsample_rate:
\* apart from the frame whose appends are still to be made, realtime has
\* received the frames 0, 1, 2, ... and subsampled the frames 0, N, 2N, ...,
\* each in increasing order.
C31_RealtimeAllSubsampledNth ==
    call.fn = "stream_to_redis" =>
        LET n == Len(captured)
            rtDone == IF ProducerAt = "realtime" THEN n - 1 ELSE n
            ssDone == IF ProducerAt \in {"realtime", "subsampled"} THEN n - 1 ELSE n
        IN  /\ IdxOf(call.realtime_hist) = [i \in 1..rtDone |-> i - 1]
            /\ IdxOf(hist) = SelectSeq([i \in 1..ssDone |-> i - 1],
                                       LAMBDA x : x % call.subsample_rate = 0)
            /\ ProducerAt = "subsampled" => captured[n] % call.subsample_rate = 0

C31_Witness ==
    /\ call.fn = "stream_to_redis" /\ call.at = "capture"
    /\ call.subsample_rate = 2
    /\ IdxOf(call.realtime_hist) = <<0, 1, 2, 3>>
    /\ IdxOf(hist) = <<0, 2>>

\* s is what is left of h after dropping some of its oldest entries
IsSuffix(s, h) ==
    /\ Len(s) <= Len(h)
    /\ s = SubSeq(h, Len(h) - Len(s) + 1, Len(h))

\* a step from stream s with history h to s2, h2 under bound mlen changes the
\* stream only by an append, and drops entries only if the append exceeds mlen
OnlyTrimOnAppend(s, h, s2, h2, mlen) ==
    /\ s2 # s => (Len(h2) = Len(h) + 1 /\ SubSeq(h2, 1, Len(h)) = h)
    /\ (h2 # h /\ Len(s) + 1 <= mlen) => s2 = Append(s, h2[Len(h2)])

\* C32: each stream always holds a contiguous suffix of the entries ever
\* appended to it, unmodified; its content changes only in an append, and an
\* append drops (oldest) entries only when it would exceed the bound.
C32_SuffixOfAppended ==
    /\ [](call.fn = "stream_to_redis" =>
            (IsSuffix(stream, hist) /\ IsSuffix(call.realtime, call.realtime_hist)))
    /\ [][call.fn = "stream_to_redis" =>
            /\ OnlyTrimOnAppend(stream, hist, stream', hist', maxlen)
            /\ OnlyTrimOnAppend(call.realtime, call.realtime_hist,
                                call'.realtime, call'.realtime_hist, RealtimeMaxlen)]_vars

C32_Witness ==
    /\ call.fn = "stream_to_redis"
    /\ Len(call.realtime_hist) = 4 /\ IdxOf(call.realtime) = <<1, 2, 3>>
    /\ maxlen = 1 /\ IdxOf(hist) = <<0, 1, 2, 3>> /\ Len(stream) < 4

-----------------------------------------------------------------------------
(* Further properties of the stream handler, checked under Spec *)

\* C33: with appends (and their trims) and reads interleaved in any order,
\* every get_latest_entries / get_latest_frames call returns the last
\* min(count, length) entries of the stream as it stands at the step of the
\* read: a run of consecutive appends ending with the newest one, in append
\* order, and the read leaves the stream as it was.
C33_ReadIsSnapshot ==
    [][(lastRead' # lastRead /\ lastRead'.op \in {"get_latest_entries", "get_latest_frames"}) =>
          LET got == lastRead'.entries
          IN  /\ got = LastN(stream, lastRead'.count)
              /\ Len(got) = Min(lastRead'.count, Len(stream))
              /\ got = SubSeq(hist, Len(hist) - Len(got) + 1, Len(hist))
              /\ stream' = stream /\ hist' = hist]_vars

C33_Witness ==
    /\ lastRead.op = "get_latest_entries"
    /\ lastRead.count = 2 /\ Len(lastRead.entries) = 2
    /\ lastRead.entries[1].id = 2
    /\ lastRead.appended = 3 /\ Len(hist) = 4
    /\ maxlen = 2 /\ approximate

-----------------------------------------------------------------------------
(* Further properties of the run_watcher loop, checked under SpecRun *)

\* C34: once a store call of the loop (get_latest_frames or add_logs) has
\* raised, the loop is over and run_watcher has returned: no step afterwards
\* reads the stream, calls the model, appends a log entry or plays the alert.
C34_StoreErrorEndsLoop ==
    /\ [](cause = "store" => pc = "stopped")
    /\ [][cause = "store" =>
            /\ pc' = "stopped" /\ cause' = "store"
            /\ lastRead' = lastRead /\ batch' = batch /\ result' = result
            /\ logs' = logs /\ round' = round /\ roundLogs' = roundLogs
            /\ roundAlerts' = roundAlerts /\ failedRounds' = failedRounds]_vars

C34_Witness ==
    /\ cause = "store" /\ pc = "stopped"
    /\ round = 2 /\ roundLogs = 0 /\ Len(logs) = 1
    /\ Len(hist) > lastRead.appended

\* C35: a read leaves the stream as it is and the loop keeps no cursor: a
\* round that reads with no append since the previous round's read gets the
\* identical frame batch, and every round whose log step is made adds its own
\* entry to the logs stream, one per round.
C35_ReadDoesNotConsume ==
    /\ [][(pc = "read" /\ lastRead' # lastRead) => (stream' = stream /\ hist' = hist)]_vars
    /\ [][(pc = "read" /\ pc' = "infer" /\ round >= 1 /\ lastRead.frames # <<>>
            /\ lastRead.appended = Len(hist))
          => (batch' = batch /\ lastRead'.frames = lastRead.frames)]_vars
    /\ [][(pc = "log" /\ pc' \in {"read", "alert"})
          => (Len(logs') = Len(logs) + 1 /\ Len(logs') = round)]_vars

C35_Witness ==
    /\ round = 2 /\ pc = "read" /\ Len(logs) = 2
    /\ Len(hist) = 2 /\ lastRead.appended = 2
    /\ [i \in 1..Len(batch) |-> batch[i].frame_idx] = <<1, 0>>
    /\ logs[1].fields.timestamp = logs[2].fields.timestamp

-----------------------------------------------------------------------------
(* RedisStreamHandler.get_latest_entries / get_latest_logs called with a
   last_id (redis_stream.py) *)

MaxId == 4              \* largest entry id in the stream that is read

\* the streams a reader may meet: entries with consecutive ids lo..hi
ReadStreams ==
    {[i \in 1..(hi - lo + 1) |-> [id |-> lo + i - 1, fields |-> [message |-> lo + i - 1]]] :
        lo \in 1..MaxId, hi \in 0..MaxId}

InitEntries ==
    /\ InitLib
    /\ call \in {[fn |-> "args", s |-> s, count |-> count, last_id |-> last_id] :
                   s \in ReadStreams, count \in 1..MaxCount,
                   last_id \in {<<>>} \cup {<<i>> : i \in 1..(MaxId + 1)}}

GetLatestEntriesCall ==
    /\ call.fn = "args"
    /\ call' = [fn |-> "get_latest_entries", s |-> call.s, count |-> call.count,
                last_id |-> call.last_id,
                ret |-> get_latest_entries(call.s, call.count, call.last_id)]
    /\ UNCHANGED <<storeVars, runVars, watchVars, captured, slept>>

GetLatestLogsCall ==
    /\ call.fn = "args"
    /\ call' = [fn |-> "get_latest_logs", s |-> call.s, count |-> call.count,
                last_id |-> call.last_id,
                ret |-> get_latest_logs(call.s, call.count, call.last_id)]
    /\ UNCHANGED <<storeVars, runVars, watchVars, captured, slept>>

NextEntries == GetLatestEntriesCall \/ GetLatestLogsCall

SpecEntries == InitEntries /\ [][NextEntries]_vars

\* C36: with a last_id, the result is oldest first, holds only entries of the
\* stream whose id is at least last_id, holds min(count, number of such
\* entries) of them, and holds the newest of them; the bound is inclusive, so
\* the entry with id last_id itself is returned while it is among the count
\* newest.
C36_InclusiveLowerBound ==
    (call.fn \in {"get_latest_entries", "get_latest_logs"} /\ call.last_id # <<>>) =>
        LET from == call.last_id[1]
            eligible == {i \in 1..Len(call.s) : call.s[i].id >= from}
            ret == call.ret
        IN  /\ \A i, j \in 1..Len(ret) : i < j => ret[i].id < ret[j].id
            /\ \A i \in 1..Len(ret) :
                  ret[i].id >= from /\ \E k \in 1..Len(call.s) : call.s[k] = ret[i]
            /\ Len(ret) = Min(call.count, Cardinality(eligible))
            /\ \A k \in eligible :
                  (\E i \in 1..Len(ret) : ret[i] = call.s[k])
                  \/ (Len(ret) > 0 /\ call.s[k].id < ret[1].id)
            /\ ((\E k \in eligible : call.s[k].id = from)
                  /\ Cardinality(eligible) <= call.count) => ret[1].id = from

C36_Witness ==
    /\ call.fn = "get_latest_logs" /\ call.last_id = <<3>> /\ call.count = 3
    /\ Len(call.s) = 3 /\ call.s[1].id = 2
    /\ Len(call.ret) = 2 /\ call.ret[1].id = 3 /\ call.ret[2].id = 4

-----------------------------------------------------------------------------
(* Watcher._calculate_fps on frames of any kind (watcher/watcher.py).  A
   timestamp is [dt |-> microseconds] for a datetime and [text |-> ...] for a
   value that is not one. *)

AnyTimes ==
    {[dt |-> 0], [dt |-> 100], [dt |-> 1000000], [dt |-> 1000000000],
     [text |-> "not a datetime"]}

IsDatetime(t) == "dt" \in DOMAIN t

\* _calculate_fps without the try / except around the arithmetic
calculate_fps_any_unguarded(frames, default) ==
    IF Len(frames) < 2 THEN [value |-> default]
    ELSE IF ~(IsDatetime(frames[Len(frames)].timestamp) /\ IsDatetime(frames[1].timestamp))
    THEN [raised |-> "TypeError"]
    ELSE LET first == Frame(<<>>, frames[1].timestamp.dt, 0)
             last == Frame(<<>>, frames[Len(frames)].timestamp.dt, Len(frames) - 1)
             between == [i \in 1..(Len(frames) - 2) |-> first]
         IN  [value |-> calculate_fps(<<first>> \o between \o <<last>>, default)]

\* lines 72-90: the subtraction of two timestamps that are not both datetimes
\* raises TypeError inside the try block, and the except clause returns
\* default_fps; only frames[0] and frames[-1] are looked at
calculate_fps_any(frames, default) ==
    IF Len(frames) < 2 THEN [value |-> default]
    ELSE IF ~(IsDatetime(frames[Len(frames)].timestamp) /\ IsDatetime(frames[1].timestamp))
    THEN [value |-> default]
    ELSE LET first == Frame(<<>>, frames[1].timestamp.dt, 0)
             last == Frame(<<>>, frames[Len(frames)].timestamp.dt, Len(frames) - 1)
             between == [i \in 1..(Len(frames) - 2) |-> first]
         IN  [value |-> calculate_fps(<<first>> \o between \o <<last>>, default)]

InitFpsAny ==
    /\ InitLib
    /\ \E n \in 0..MaxFpsFrames, d \in {default_fps, 5} :
         \E ts \in [1..n -> AnyTimes] :
            call = [fn |-> "args", default |-> d,
                    frames |-> [i \in 1..n |-> Frame(<<255, 216>>, ts[i], i - 1)]]

CalculateFpsAny ==
    /\ call.fn = "args"
    /\ call' = [fn |-> "_calculate_fps", frames |-> call.frames, default |-> call.default,
                 ret |-> calculate_fps_any(call.frames, call.default)]
    /\ UNCHANGED <<storeVars, runVars, watchVars, captured, slept>>

NextFpsAny == CalculateFpsAny

SpecFpsAny == InitFpsAny /\ [][NextFpsAny]_vars

\* C37: _calculate_fps raises for no frame list, whatever its timestamps are,
\* and returns default_fps or an integer from 1 to 60, never 0 and never a
\* negative number.
C37_NeverRaisesNeverDegenerate ==
    call.fn = "_calculate_fps" =>
        /\ "value" \in DOMAIN call.ret
        /\ "value" \in DOMAIN call.ret =>
              /\ (call.ret.value = call.default \/ call.ret.value \in 1..60)
              /\ call.ret.value > 0

\* two frames whose timestamps are strings
C37_Witness ==
    /\ call.fn = "_calculate_fps"
    /\ Len(call.frames) = 2
    /\ ~IsDatetime(call.frames[1].timestamp) /\ ~IsDatetime(call.frames[2].timestamp)
    /\ call.default = 5
    /\ call.ret = [value |-> 5]

-----------------------------------------------------------------------------
(* Further properties of Watcher.watch, checked under SpecWatch *)

\* every instruction of the round has had both attempts and neither parsed
AllAttemptsFailed ==
    /\ wpc = "adjust"
    /\ \A i \in 1..ninstr : outcomes[i] = <<"unparsable", "unparsable">>

\* C38: a round in which every instruction fails both attempts collects no
\* response; its adjustment leaves current_awareness as it was before the
\* round, raises nothing, and the loop goes back to fetch frames.
C38_FailedRoundKeepsLevel ==
    /\ [](AllAttemptsFailed => responses = <<>>)
    /\ [][AllAttemptsFailed =>
            /\ current_awareness' = current_awareness
            /\ current_awareness' = prev_awareness
            /\ wpc' = "frames" /\ wcause' = "none"]_vars

C38_Witness ==
    /\ wround = 2 /\ wpc = "generate" /\ ninstr = 2
    /\ slept.by = "watch" /\ slept.round = 1
    /\ current_awareness = Enum("MEDIUM")

-----------------------------------------------------------------------------
(* The threaded CameraStream (src/ai_baby_monitor/camera_stream.py): the
   capture thread and one thread calling the reader methods.  Time is counted
   in capture periods (1 / capture_fps seconds). *)

MaxReads == 4           \* cap.read() calls the capture thread makes

capture_fps == 2

ReaderMethods ==
    {"get_frame_buffer", "get_latest_frame", "get_latest_n_frames",
     "get_latest_n_seconds", "is_healthy"}

\* all_frames[::-step]: from the newest backwards, every step-th frame
EveryFromEnd(s, step) ==
    [i \in 1..((Len(s) + step - 1) \div step) |-> s[Len(s) - (i - 1) * step]]

\* what a reader method returns for the buffer it sees at time now, with
\* n = 2 frames or 1 second asked for at the rate fps
ReaderResult(method, buf, now, fps) ==
    LET step == capture_fps \div fps
        picked == EveryFromEnd(buf, step)
    IN  CASE method = "get_frame_buffer" -> [kind |-> "list", frames |-> buf]
          [] method = "get_latest_frame" ->
                IF buf # <<>> THEN [kind |-> "frame", frame |-> buf[Len(buf)]]
                ELSE [kind |-> "None"]
          [] method = "get_latest_n_frames" ->
                [kind |-> "list", frames |-> Reverse(SubSeq(picked, 1, Min(2, Len(picked))))]
          [] method = "get_latest_n_seconds" ->
                [kind |-> "list",
                 frames |-> Reverse(SelectSeq(picked,
                                LAMBDA f : f.timestamp >= now - capture_fps))]
          [] method = "is_healthy" ->
                [kind |-> "bool",
                 value |-> buf # <<>> /\ now - buf[Len(buf)].timestamp < 3]

InitBuffer ==
    /\ InitLib
    /\ call \in {[fn |-> "CameraStream", buffer_size |-> b, frame_buffer |-> <<>>,
                   lock |-> "free", writer |-> "idle", pending |-> None,
                   reader |-> "idle", fps |-> capture_fps, overlapped |-> FALSE,
                   ret |-> [kind |-> "none yet"]] : b \in 1..MaxBound}

\* lines 84-94: cap.read(); a failed read is logged and the loop continues; a
\* frame is wrapped, frame_idx is advanced and line 95 is reached
CaptureLoopRead ==
    /\ call.fn = "CameraStream" /\ call.writer = "idle"
    /\ clock < MaxReads
    /\ \E ret \in BOOLEAN :
         IF ret
         THEN /\ call' = [call EXCEPT !.writer = "appending",
                                      !.pending = Frame(<<255, 216>>, clock, frame_idx),
                                      !.overlapped = @ \/ call.reader # "idle"]
              /\ frame_idx' = frame_idx + 1
         ELSE UNCHANGED <<call, frame_idx>>
    /\ clock' = clock + 1
    /\ UNCHANGED <<stream, hist, maxlen, approximate, lastRead, runVars, watchVars,
                   captured, slept>>

\* line 95: self.frame_buffer.append(frame), made without taking self.lock;
\* the deque drops its oldest frame when it is full
CaptureLoopAppend ==
    /\ call.fn = "CameraStream" /\ call.writer = "appending"
    /\ call' = [call EXCEPT !.frame_buffer = LastN(Append(@, call.pending), call.buffer_size),
                            !.writer = "idle", !.pending = None]
    /\ UNCHANGED <<storeVars, runVars, watchVars, captured, slept>>

\* lines 108-153: a reader method enters its "with self.lock" block
ReaderEnter ==
    /\ call.fn = "CameraStream" /\ call.reader = "idle" /\ call.lock = "free"
    /\ \E method \in ReaderMethods, fps \in {1, capture_fps} :
         call' = [call EXCEPT !.reader = method, !.fps = fps, !.lock = "held",
                              !.overlapped = (call.writer = "appending")]
    /\ UNCHANGED <<storeVars, runVars, watchVars, captured, slept>>

\* the reader method copies or indexes the buffer and leaves the block; a
\* copy that ran while the deque was being appended to either completes or
\* raises RuntimeError (deque mutated during iteration)
ReaderLeave ==
    /\ call.fn = "CameraStream" /\ call.reader # "idle"
    /\ \E r \in {ReaderResult(call.reader, call.frame_buffer, clock, call.fps)}
                 \cup (IF call.overlapped THEN {[kind |-> "RuntimeError"]} ELSE {}) :
         call' = [call EXCEPT !.ret = r, !.reader = "idle", !.lock = "free",
                              !.overlapped = FALSE]
    /\ UNCHANGED <<storeVars, runVars, watchVars, captured, slept>>

NextBuffer == CaptureLoopRead \/ CaptureLoopAppend \/ ReaderEnter \/ ReaderLeave

SpecBuffer == InitBuffer /\ [][NextBuffer]_vars

\* C39: the capture thread's append to frame_buffer and a reader method's
\* access to it never happen at the same time.
C39_BufferAccessExclusive ==
    call.fn = "CameraStream" => ~(call.writer = "appending" /\ call.reader # "idle")

-----------------------------------------------------------------------------
(* Further properties of stream_to_redis, checked under SpecProducer *)

\* C40: however stream_to_redis ends (interrupt, exception from the capture,
\* exception from a store call), camera.close() has been called once if the
\* CameraStream was constructed and not at all if its construction failed;
\* it is not called while the loop runs; and once the function has ended, on
\* a failed append in particular, no frame is captured or appended any more.
C40_CloseOnceOnExit ==
    /\ [](call.fn = "stream_to_redis" =>
            /\ call.closes = IF call.at = "ended" /\ call.camera = "open" THEN 1 ELSE 0
            /\ call.cause # "none" <=> call.at = "ended"
            /\ call.cause = "ConnectionError" => call.camera = "none")
    /\ [][(call.fn = "stream_to_redis" /\ call.at = "ended") =>
            (call' = call /\ stream' = stream /\ hist' = hist
             /\ frame_idx' = frame_idx /\ captured' = captured)]_vars

C40_Witness ==
    /\ call.fn = "stream_to_redis" /\ call.at = "ended"
    /\ call.cause = "RedisError" /\ call.was = "subsampled"
    /\ call.camera = "open" /\ call.closes = 1
    /\ captured = <<0, 1, 2>> /\ IdxOf(hist) = <<0>> /\ call.subsample_rate = 2

====
